---- MODULE Spec2Model ----
(***************************************************************************)
(* Model of github.com/getlantern/trafficlog-flashlight.                   *)
(*                                                                         *)
(* Part 1: the process supervisor, package tlproc (tlproc/tlproc.go):      *)
(* New, its wait / copy / poll goroutines, watchStderr, sendError,         *)
(* sendStats, Close, and the consumers of Errors() and Stats().            *)
(*                                                                         *)
(* The capture subprocess is whatever binary is installed at               *)
(* <installDir>/tlserver; it is modelled as an opaque process that may     *)
(* start listening, write lines to its standard error, and exit.           *)
(***************************************************************************)
EXTENDS Integers, Sequences, FiniteSets, TLC

\* ------------------------------------------------------------- bounds
\* Number of lines the subprocess writes to its standard error in a run.
MaxLines == 2
\* Number of threads that call Close on the handle.
NClosers == 2
\* Number of lines the OS pipe of the subprocess's stderr holds before a
\* write by the subprocess blocks.
PipeCap == 2
\* Number of lines the subprocess writes in a run of BurstSpec: more than
\* channelBufferSize, so that a queue overflows.
BurstLines == 11

\* ---------------------------------------------------------- constants
\* tlproc.go:36
channelBufferSize == 10
\* tlproc.go:41
errorPrefix == "error: "
statsPrefix == "stats: "

Closers == 1..NClosers
Producers == {"wait", "copy", "watch"}
NoEvent == [src |-> "none", id |-> 0, text |-> ""]
\* Holders of a mutex: a goroutine, a Close caller, or nobody.
Goroutine(name) == <<name, 0>>
Closer(i) == <<"close", i>>
Free == <<"none", 0>>

\* What os.Stat(binPath) can answer (tlproc.go:122-127).
StatResults == {"ok", "notexist", "error"}
\* The dynamic type of opts.MutatorFactory (tlproc.go:83-88, 282-292).
Mutators == {"nil", "NoOpFactory", "AppStripperFactory", "Other"}

\* A line of the subprocess's standard error: an optional prefix and a body.
\* The body of a stats line is JSON that decodes ("json") or not ("text").
LineShapes ==
    { [prefix |-> errorPrefix, body |-> "text"],
      [prefix |-> statsPrefix, body |-> "json"],
      [prefix |-> statsPrefix, body |-> "text"],
      [prefix |-> "",          body |-> "text"] }

\* A line longer than bufio.MaxScanTokenSize (64 KiB), the most the scanner of
\* watchStderr (tlproc.go:236) takes as one token.
LongShapes == { [prefix |-> errorPrefix, body |-> "long"] }
TooLong(line) == line.body = "long"

VARIABLES
    env,          \* the subprocess of this run: how many lines it writes, of which shapes
    statRes,      \* the answer of os.Stat(binPath)
    opts,         \* the Options New works with; out of scope once New returns
    newPc,        \* position of the caller inside New
    newResult,    \* "none" | "handle" | "error"
    socketMade,   \* newSocketFile has reserved a socket path
    threads,      \* the set of goroutines New has started
    proc,         \* "none" | "running" | "exited"
    procUp,       \* the subprocess answers health checks
    waitErr,      \* what cmd.Wait returns: "nil" | "exit" | "killed"
    kills,        \* number of kills of the subprocess, by who issued them
    emitted,      \* number of lines the subprocess has written
    osPipe,       \* lines in the OS pipe of the subprocess's stderr
    stderrClosed, \* cmd.Wait has closed the parent's end of that pipe
    stderrBuf,    \* syncBuf: the start-up buffer
    rPipe,        \* the io.Pipe exists
    copierTo,     \* copier.to: "buf" | "pipe"
    copierMx,     \* holder of the copier's mutex
    stopC,        \* copier.stopC is closed
    copyPc,       \* position of the copy goroutine
    copyBuf,      \* the chunk the copy goroutine holds
    serverUp,     \* the serverUp channel is closed
    pollPc,       \* position of the poll goroutine
    healthOk,     \* a CheckHealth call has returned nil
    errC,         \* p.errC, a buffered channel
    statsC,       \* p.statsC, a buffered channel
    closedFlag,   \* p.closed is closed
    chanClosed,   \* number of close() calls per stream
    closedMx,     \* holder of p.closedMx
    panicked,     \* a goroutine has panicked
    waitPc,       \* position of the wait goroutine
    watchPc,      \* position of watchStderr
    watchSrc,     \* the reader the MultiReader is at: "buf" | "pipe"
    watched,      \* the lines the scanner has returned, in order
    pending,      \* the event each producer is about to send
    closePc,      \* position of each Close caller
    closeRet,     \* what each Close call returned
    errRecv,      \* events the consumer has received from Errors()
    statsRecv,    \* events the consumer has received from Stats()
    dropped       \* per stream, the events a producer discarded on a full queue

newVars   == <<env, statRes, opts, newPc, newResult, socketMade, threads>>
procVars  == <<proc, procUp, waitErr, kills, emitted, osPipe, stderrClosed>>
copyVars  == <<stderrBuf, rPipe, copierTo, copierMx, stopC, copyPc, copyBuf>>
pollVars  == <<serverUp, pollPc, healthOk>>
chanVars  == <<errC, statsC, closedFlag, chanClosed, panicked>>
sendVars  == <<closedMx, pending, dropped>>
watchVars == <<watchPc, watchSrc, watched>>
closeVars == <<closePc, closeRet>>
recvVars  == <<errRecv, statsRecv>>

\* The variables of Install (install.go:440-559).
VARIABLES
    installArgs,   \* the caller's prompt, iconPath and opts.Overwrite
    installPc,     \* position of the caller inside Install
    installRet,    \* what Install returned: an error chain, <<>> for nil
    resourcesPath, \* the temporary resource bundle: "none" | "exists" | "removed"
    deferred,      \* defer os.RemoveAll(resourcesPath) has been registered
    tlconfigRuns,  \* the runs of tlconfig so far, in order
    output,        \* len(output) > 0 for the last run
    err,           \* the err local of Install: an error chain, <<>> for nil
    failedCheck,   \* the failedCheck local
    outdated       \* the outdated local

installVars == <<installArgs, installPc, installRet, resourcesPath, deferred,
                 tlconfigRuns, output, err, failedCheck, outdated>>

tlprocVars == <<newVars, procVars, copyVars, pollVars, chanVars, sendVars,
                watchVars, waitPc, closeVars, recvVars>>

\* The variables of a helper that ends in exitcodes.ExitWith.
VARIABLES
    exitIn,     \* the code and the message the helper's failure is built from
    exitErr,    \* the error the helper holds, <<>> for none
    exitPc,     \* "idle" | "start" | "failed" | "exited"
    exitCode,   \* the exit code of the helper process, -1 while it runs
    exitStderr  \* what the helper has printed to stderr

exitVars == <<exitIn, exitErr, exitPc, exitCode, exitStderr>>

\* The variables of a run of config-bpf (config-bpf/main.go:70-182) and of the
\* system it runs on.
VARIABLES
    bpfFlags,     \* -test, and whether -stdout and -stderr name a file
    bpfPc,        \* position inside main
    bpfExit,      \* the exit code of the run, -1 while it runs
    groupExists,  \* the group access_bpf exists
    groupOps,     \* the changes made to the groups of the system
    systemMax,    \* sysctl debug.bpf_maxdevices
    devices,      \* /dev/bpf0, /dev/bpf1, ...: owning group and group-read bit
    truncated,    \* the files the run has truncated
    devOps,       \* the changes the run has made to devices, in order
    startDevice,  \* the startDevice local, then the loop variable i
    endDevice,    \* the endDevice local
    bpfDevices,   \* the indices the second walk found
    devPos        \* position of the range loop in bpfDevices

bpfVars == <<bpfFlags, bpfPc, bpfExit, groupExists, groupOps, systemMax, devices,
             truncated, devOps, startDevice, endDevice, bpfDevices, devPos>>

\* The statistics printer of tlserver (tlserver/main.go:102-117) and the line
\* switch of watchStderr (tlproc.go:235-254), on the text of the lines.
VARIABLES
    srvPc,      \* "idle" | "select" | "printed"
    srvStats,   \* the value tl.Stats() hands to the printer
    srvLine,    \* the line the printer has written to standard error
    sentStats,  \* the values printed as stats lines so far, in order
    statsOut,   \* the values the watch thread has passed to sendStats, in order
    errOut      \* the errors the watch thread has passed to sendError, in order

codecVars == <<srvPc, srvStats, srvLine, sentStats, statsOut, errOut>>

\* The relay of the subprocess's standard error, byte by byte: copier.copy,
\* copier.switchWriter, syncBuf and the readers of watchStderr
\* (tlproc.go:177-206, 321-391).
VARIABLES
    relayFrom,     \* bytes in the OS pipe that copy has not read
    relayEmitted,  \* number of bytes the subprocess has written
    relayRead,     \* the bytes c.from.Read has returned, in order
    relayChunk,    \* buf[:n], the chunk copy holds
    relayCopyPc,   \* position of copier.copy
    relayTo,       \* c.to: "buf" | "pipe"
    relayTarget,   \* the writer the running c.to.Write call was made on
    relayMx,       \* holder of the copier's mutex: "none" | "copy" | "new"
    relayBuf,      \* unread bytes of stderrBuf
    relayNewPc,    \* position of New: "off" | "select" | "switch" | "go" | "done"
    relayWatchSrc, \* the reader the MultiReader is at: "off" | "buf" | "pipe"
    relayWatched   \* the bytes the scanner of watchStderr has read, in order

relayVars == <<relayFrom, relayEmitted, relayRead, relayChunk, relayCopyPc, relayTo,
               relayTarget, relayMx, relayBuf, relayNewPc, relayWatchSrc, relayWatched>>

\* Runs of tlconfig (tlconfig/main.go:133-303), one after the other on one
\* system.
VARIABLES
    cfgTest,     \* the -test flag of the current run
    cfgPc,       \* position inside configure
    cfgRuns,     \* the finished runs: flag, exit code, changes made
    cfgOps,      \* the changes the current run has made or tried, in order
    cfgGroup,    \* the group access_bpf exists
    cfgBinOwned, \* the binary is owned by the user and by access_bpf
    cfgBinMode,  \* the binary's mode: "proper" | "other"
    cfgDevices,  \* /dev/bpf0, /dev/bpf1, ...: owning group and group-read bit
    cfgMax,      \* sysctl debug.bpf_maxdevices
    cfgStart,    \* the startDevice local, then the loop variable i
    cfgEnd,      \* the endDevice local
    cfgList,     \* the bpfDevices local
    cfgPos       \* position of the range loop in bpfDevices

cfgVars == <<cfgTest, cfgPc, cfgRuns, cfgOps, cfgGroup, cfgBinOwned, cfgBinMode,
             cfgDevices, cfgMax, cfgStart, cfgEnd, cfgList, cfgPos>>

\* The command line New spawns the subprocess with (tlproc.go:133-159) and
\* the start of tlserver on it (tlserver/main.go:29-37, 84-91).
VARIABLES
    cmdArgs,    \* captureBytes, saveBytes and the options New was called with
    cmdBy,      \* who started tlserver: "none" | "New" | "shell"
    cmdPc,      \* "off" | "new" | "error" | "spawned" | "parsed" | "serving" | "exited"
    cmdLine,    \* the arguments of the subprocess, in order
    srvValues,  \* the flag variables of tlserver
    srvExit     \* the exit code of tlserver, -1 while it runs

cmdVars == <<cmdArgs, cmdBy, cmdPc, cmdLine, srvValues, srvExit>>

\* Two calls of Install, one after the other, on one machine.
VARIABLES
    machine,    \* the machine: configured, installed binaries fresh, a failing OS call
    applied,    \* the apply run of the current call has done its work
    callNo,     \* 0 (no such sequence) | 1 | 2
    firstCall   \* what the first call returned and whether it asked for elevation

sysVars == <<machine, applied, callNo, firstCall>>

moreVars == <<codecVars, relayVars, cfgVars, cmdVars, sysVars>>

\* The variables of the install protocol and its helpers.
helperVars == <<installVars, exitVars, bpfVars, moreVars>>

vars == <<tlprocVars, helperVars>>

\* ------------------------------------------------------------ helpers
\* The locals of New (opts, cmd) once New has returned.
OutOfScope == [mutator |-> "nil", timeout |-> FALSE]

\* Options.mutatorFactory: nil selects the no-op factory.
mutatorFactory(o) == IF o.mutator = "nil" THEN "NoOpFactory" ELSE o.mutator

\* shouldStripAppLayer without its default case: every factory that is not
\* the application-layer stripper counts as the no-op factory.
shouldStripAppLayerAcceptsAll(m) ==
    IF m = "AppStripperFactory" THEN <<TRUE, "nil">> ELSE <<FALSE, "nil">>

\* shouldStripAppLayer: <<flag, err>>.
shouldStripAppLayer(m) ==
    CASE m = "AppStripperFactory" -> <<TRUE, "nil">>
      [] m = "NoOpFactory"        -> <<FALSE, "nil">>
      [] OTHER                    -> <<FALSE, "error">>

\* os.Process.Kill issued by `who`: the subprocess, if running, dies of the signal.
Kill(who) ==
    /\ kills' = [kills EXCEPT ![who] = @ + 1]
    /\ IF proc = "running"
       THEN proc' = "exited" /\ waitErr' = "killed" /\ procUp' = FALSE
       ELSE UNCHANGED <<proc, waitErr, procUp>>

\* Mutant of Lock: takes the mutex without waiting for it to be free.
LockNoWait(t) ==
    /\ closedMx' = t

\* sync.Mutex.Lock on p.closedMx by thread t: blocks until the mutex is free.
Lock(t) ==
    /\ closedMx = Free
    /\ closedMx' = t

\* ---------------------------------------------------------------- Init
\* Install has not been called.
InstallIdle ==
    /\ installArgs = [prompt |-> "", iconPath |-> "", Overwrite |-> FALSE,
                      GOOS |-> "darwin"]
    /\ installPc = "idle"
    /\ installRet = <<>>
    /\ resourcesPath = "none"
    /\ deferred = FALSE
    /\ tlconfigRuns = <<>>
    /\ output = FALSE
    /\ err = <<>>
    /\ failedCheck = FALSE
    /\ outdated = FALSE

\* No helper process runs.
ExitIdle ==
    /\ exitIn = [code |-> 0, msg |-> "", wraps |-> 0]
    /\ exitErr = <<>>
    /\ exitPc = "idle"
    /\ exitCode = -1
    /\ exitStderr = <<>>

\* config-bpf does not run.
BpfIdle ==
    /\ bpfFlags = [test |-> FALSE, stdout |-> FALSE, stderr |-> FALSE]
    /\ bpfPc = "idle"
    /\ bpfExit = -1
    /\ groupExists = FALSE
    /\ groupOps = <<>>
    /\ systemMax = 0
    /\ devices = <<>>
    /\ truncated = {}
    /\ devOps = <<>>
    /\ startDevice = 0
    /\ endDevice = 0
    /\ bpfDevices = <<>>
    /\ devPos = 0

\* No helper of the install protocol runs while New and its threads do.
\* The statistics printer has nothing to print.
CodecIdle ==
    /\ srvPc = "idle"
    /\ srvStats = [Received |-> 0, Dropped |-> 0]
    /\ srvLine = <<>>
    /\ sentStats = <<>>
    /\ statsOut = <<>>
    /\ errOut = <<>>

\* No bytes are relayed.
RelayIdle ==
    /\ relayFrom = <<>>
    /\ relayEmitted = 0
    /\ relayRead = <<>>
    /\ relayChunk = <<>>
    /\ relayCopyPc = "off"
    /\ relayTo = "buf"
    /\ relayTarget = "buf"
    /\ relayMx = "none"
    /\ relayBuf = <<>>
    /\ relayNewPc = "off"
    /\ relayWatchSrc = "off"
    /\ relayWatched = <<>>

\* tlconfig does not run.
CfgIdle ==
    /\ cfgTest = FALSE
    /\ cfgPc = "off"
    /\ cfgRuns = <<>>
    /\ cfgOps = <<>>
    /\ cfgGroup = FALSE
    /\ cfgBinOwned = FALSE
    /\ cfgBinMode = "other"
    /\ cfgDevices = <<>>
    /\ cfgMax = 0
    /\ cfgStart = 0
    /\ cfgEnd = 0
    /\ cfgList = <<>>
    /\ cfgPos = 0

\* No command line is built and tlserver is not started.
CmdIdle ==
    /\ cmdArgs = [captureBytes |-> 0, saveBytes |-> 0, mutator |-> "nil", MTULimit |-> 0]
    /\ cmdBy = "none"
    /\ cmdPc = "off"
    /\ cmdLine = <<>>
    /\ srvValues = [captureBytes |-> 0, saveBytes |-> 0, stripAppLayer |-> FALSE]
    /\ srvExit = -1

\* Install is called once, on a machine nothing is said about.
SysIdle ==
    /\ machine = [config |-> TRUE, fresh |-> TRUE, fault |-> "none"]
    /\ applied = FALSE
    /\ callNo = 0
    /\ firstCall = [ret |-> <<>>, elevated |-> FALSE]

MoreIdle == CodecIdle /\ RelayIdle /\ CfgIdle /\ CmdIdle /\ SysIdle

HelpersIdle == InstallIdle /\ ExitIdle /\ BpfIdle /\ MoreIdle

InitWith(e, st, o) ==
    /\ env = e
    /\ statRes = st
    /\ opts = o
    /\ newPc = "stat"
    /\ newResult = "none"
    /\ socketMade = FALSE
    /\ threads = {}
    /\ proc = "none"
    /\ procUp = FALSE
    /\ waitErr = "nil"
    /\ kills = [new |-> 0, close |-> 0, early |-> 0, external |-> 0]
    /\ emitted = 0
    /\ osPipe = <<>>
    /\ stderrClosed = FALSE
    /\ stderrBuf = <<>>
    /\ rPipe = FALSE
    /\ copierTo = "buf"
    /\ copierMx = Free
    /\ stopC = FALSE
    /\ copyPc = "read"
    /\ copyBuf = <<>>
    /\ serverUp = FALSE
    /\ pollPc = "sleep"
    /\ healthOk = FALSE
    /\ errC = <<>>
    /\ statsC = <<>>
    /\ closedFlag = FALSE
    /\ chanClosed = [errC |-> 0, statsC |-> 0, closed |-> 0]
    /\ closedMx = Free
    /\ panicked = FALSE
    /\ waitPc = "wait"
    /\ watchPc = "off"
    /\ watchSrc = "buf"
    /\ watched = <<>>
    /\ pending = [t \in Producers |-> NoEvent]
    /\ closePc = [i \in Closers |-> "idle"]
    /\ closeRet = [i \in Closers |-> "none"]
    /\ errRecv = <<>>
    /\ statsRecv = <<>>
    /\ dropped = [errC |-> {}, statsC |-> {}]

\* Any installation, any options, a subprocess that writes up to MaxLines lines
\* of any shape.
Init ==
    /\ \E st \in StatResults, o \in [mutator : Mutators, timeout : BOOLEAN] :
          InitWith([lines |-> MaxLines, shapes |-> LineShapes], st, o)
    /\ HelpersIdle

\* ----------------------------------------------------------------- New
\* New returns (nil, err): its locals go out of scope.
ReturnError ==
    /\ newResult' = "error"
    /\ newPc' = "done"
    /\ opts' = OutOfScope

\* Mutant of NewStat: a missing binary is not treated as an error.
NewStatIgnoresNotExist ==
    /\ newPc = "stat"
    /\ IF statRes \in {"ok", "notexist"}
       THEN newPc' = "prepare" /\ UNCHANGED <<newResult, opts>>
       ELSE ReturnError
    /\ UNCHANGED <<env, statRes, socketMade, threads>>
    /\ UNCHANGED <<procVars, copyVars, pollVars, chanVars, sendVars,
                   watchVars, waitPc, closeVars, recvVars>>
    /\ UNCHANGED helperVars

\* tlproc.go:117-127: stat the binary.
NewStat ==
    /\ newPc = "stat"
    /\ IF statRes = "ok"
       THEN newPc' = "prepare" /\ UNCHANGED <<newResult, opts>>
       ELSE ReturnError
    /\ UNCHANGED <<env, statRes, socketMade, threads>>
    /\ UNCHANGED <<procVars, copyVars, pollVars, chanVars, sendVars,
                   watchVars, waitPc, closeVars, recvVars>>
    /\ UNCHANGED helperVars

\* tlproc.go:129-140: byteexec.Existing, shouldStripAppLayer, newSocketFile.
\* existing and socket are whether the two OS-facing calls succeed.
NewPrepare ==
    /\ newPc = "prepare"
    /\ \E existing \in BOOLEAN, socket \in BOOLEAN :
         IF ~existing
         THEN ReturnError /\ UNCHANGED socketMade
         ELSE IF shouldStripAppLayer(mutatorFactory(opts))[2] # "nil"
         THEN ReturnError /\ UNCHANGED socketMade
         ELSE IF ~socket
         THEN ReturnError /\ UNCHANGED socketMade
         ELSE /\ socketMade' = TRUE
              /\ newPc' = "spawn"
              /\ UNCHANGED <<newResult, opts>>
    /\ UNCHANGED <<env, statRes, threads>>
    /\ UNCHANGED <<procVars, copyVars, pollVars, chanVars, sendVars,
                   watchVars, waitPc, closeVars, recvVars>>
    /\ UNCHANGED helperVars

\* tlproc.go:142-190: build the command, attach to stderr, start the
\* subprocess, make the channels and start the wait, copy and poll goroutines.
NewSpawn ==
    /\ newPc = "spawn"
    /\ \E started \in BOOLEAN :
         IF started
         THEN /\ proc' = "running"
              /\ threads' = {"wait", "copy", "poll"}
              /\ newPc' = "select"
              /\ UNCHANGED <<newResult, opts>>
         ELSE /\ ReturnError
              /\ UNCHANGED <<proc, threads>>
    /\ UNCHANGED <<env, statRes, socketMade>>
    /\ UNCHANGED <<procUp, waitErr, kills, emitted, osPipe, stderrClosed>>
    /\ UNCHANGED <<copyVars, pollVars, chanVars, sendVars,
                   watchVars, waitPc, closeVars, recvVars>>
    /\ UNCHANGED helperVars

\* tlproc.go:193-194: an error arrived on errC; kill the subprocess.
NewSelectErr ==
    /\ newPc = "select"
    /\ Len(errC) > 0
    /\ errC' = Tail(errC)
    /\ Kill("new")
    /\ newPc' = "stop"
    /\ UNCHANGED <<env, statRes, opts, newResult, socketMade, threads>>
    /\ UNCHANGED <<emitted, osPipe, stderrClosed>>
    /\ UNCHANGED <<statsC, closedFlag, chanClosed, panicked>>
    /\ UNCHANGED <<copyVars, pollVars, sendVars,
                   watchVars, waitPc, closeVars, recvVars>>
    /\ UNCHANGED helperVars

\* Mutant of NewSelectTimeout: the timeout case does not kill the subprocess.
NewSelectTimeoutNoKill ==
    /\ newPc = "select"
    /\ opts.timeout
    /\ newPc' = "stop"
    /\ UNCHANGED <<env, statRes, opts, newResult, socketMade, threads>>
    /\ UNCHANGED <<procVars, copyVars, pollVars, chanVars, sendVars,
                   watchVars, waitPc, closeVars, recvVars>>
    /\ UNCHANGED helperVars

\* tlproc.go:197-198: the start timeout elapsed; kill the subprocess.
\* Without StartTimeout the timer is set to math.MaxInt64 ns and never fires.
NewSelectTimeout ==
    /\ newPc = "select"
    /\ opts.timeout
    /\ Kill("new")
    /\ newPc' = "stop"
    /\ UNCHANGED <<env, statRes, opts, newResult, socketMade, threads>>
    /\ UNCHANGED <<emitted, osPipe, stderrClosed>>
    /\ UNCHANGED <<copyVars, pollVars, chanVars, sendVars,
                   watchVars, waitPc, closeVars, recvVars>>
    /\ UNCHANGED helperVars

\* tlproc.go:195-196, 199-200: stop the copier and return the error.
NewStop ==
    /\ newPc = "stop"
    /\ stopC' = TRUE
    /\ ReturnError
    /\ UNCHANGED <<env, statRes, socketMade, threads>>
    /\ UNCHANGED <<stderrBuf, rPipe, copierTo, copierMx, copyPc, copyBuf>>
    /\ UNCHANGED <<procVars, pollVars, chanVars, sendVars,
                   watchVars, waitPc, closeVars, recvVars>>
    /\ UNCHANGED helperVars

\* tlproc.go:201-202: serverUp is closed; make the pipe.
NewSelectUp ==
    /\ newPc = "select"
    /\ serverUp
    /\ rPipe' = TRUE
    /\ newPc' = "switch"
    /\ UNCHANGED <<env, statRes, opts, newResult, socketMade, threads>>
    /\ UNCHANGED <<stderrBuf, copierTo, copierMx, stopC, copyPc, copyBuf>>
    /\ UNCHANGED <<procVars, pollVars, chanVars, sendVars,
                   watchVars, waitPc, closeVars, recvVars>>
    /\ UNCHANGED helperVars

\* tlproc.go:203-205, 383-387: switchWriter under the copier's mutex, start
\* watchStderr on MultiReader(stderrBuf, rPipe), return the handle.
NewSwitchWriter ==
    /\ newPc = "switch"
    /\ copierMx = Free
    /\ copierTo' = "pipe"
    /\ threads' = threads \cup {"watch"}
    /\ watchPc' = "scan"
    /\ newResult' = "handle"
    /\ newPc' = "done"
    /\ opts' = OutOfScope
    /\ UNCHANGED <<env, statRes, socketMade>>
    /\ UNCHANGED <<stderrBuf, rPipe, copierMx, stopC, copyPc, copyBuf>>
    /\ UNCHANGED <<watchSrc, watched>>
    /\ UNCHANGED <<procVars, pollVars, chanVars, sendVars,
                   waitPc, closeVars, recvVars>>
    /\ UNCHANGED helperVars

\* ------------------------------------------------------ the subprocess
\* The subprocess starts answering requests on its socket.
ProcListen ==
    /\ proc = "running"
    /\ ~procUp
    /\ procUp' = TRUE
    /\ UNCHANGED <<proc, waitErr, kills, emitted, osPipe, stderrClosed>>
    /\ UNCHANGED <<newVars, copyVars, pollVars, chanVars, sendVars,
                   watchVars, waitPc, closeVars, recvVars>>
    /\ UNCHANGED helperVars

\* The subprocess writes one line to its standard error.
ProcEmit ==
    /\ proc = "running"
    /\ emitted < env.lines
    /\ Len(osPipe) < PipeCap
    /\ \E s \in env.shapes :
         osPipe' = Append(osPipe, [id |-> emitted + 1, prefix |-> s.prefix, body |-> s.body])
    /\ emitted' = emitted + 1
    /\ UNCHANGED <<proc, procUp, waitErr, kills, stderrClosed>>
    /\ UNCHANGED <<newVars, copyVars, pollVars, chanVars, sendVars,
                   watchVars, waitPc, closeVars, recvVars>>
    /\ UNCHANGED helperVars

\* The subprocess exits by itself, with status 0 ("nil") or not ("exit").
ProcExit ==
    /\ proc = "running"
    /\ \E st \in {"nil", "exit"} : waitErr' = st
    /\ proc' = "exited"
    /\ procUp' = FALSE
    /\ UNCHANGED <<kills, emitted, osPipe, stderrClosed>>
    /\ UNCHANGED <<newVars, copyVars, pollVars, chanVars, sendVars,
                   watchVars, waitPc, closeVars, recvVars>>
    /\ UNCHANGED helperVars

\* Something outside the supervisor kills the subprocess: "early" while New is
\* still running, "external" once New has returned the handle.
ExternalKill ==
    /\ proc = "running"
    /\ Kill(IF newResult = "handle" THEN "external" ELSE "early")
    /\ UNCHANGED <<emitted, osPipe, stderrClosed>>
    /\ UNCHANGED <<newVars, copyVars, pollVars, chanVars, sendVars,
                   watchVars, waitPc, closeVars, recvVars>>
    /\ UNCHANGED helperVars

\* ------------------------------------------------- sendError, sendStats
\* Mutant of sendError: the send on errC blocks while the queue is full instead
\* of falling through to the default case.
sendErrorBlocking(t) ==
    /\ closedFlag \/ Len(errC) < channelBufferSize
    /\ IF closedFlag
       THEN UNCHANGED errC
       ELSE errC' = Append(errC, pending[t])
    /\ pending' = [pending EXCEPT ![t] = NoEvent]
    /\ closedMx' = Free
    /\ UNCHANGED <<statsC, closedFlag, chanClosed, panicked, dropped>>

\* Mutant of sendStats: the newest event is put at the head of the queue.
sendStatsAtHead(t) ==
    /\ IF closedFlag
       THEN UNCHANGED <<statsC, dropped>>
       ELSE IF Len(statsC) < channelBufferSize
       THEN statsC' = <<pending[t]>> \o statsC /\ UNCHANGED dropped
       ELSE dropped' = [dropped EXCEPT !.statsC = @ \cup {pending[t]}] /\ UNCHANGED statsC
    /\ pending' = [pending EXCEPT ![t] = NoEvent]
    /\ closedMx' = Free
    /\ UNCHANGED <<errC, closedFlag, chanClosed, panicked>>

\* Mutant of sendError: on a full queue the oldest event makes room for the
\* newest.
sendErrorDropsOldest(t) ==
    /\ IF closedFlag
       THEN UNCHANGED <<errC, dropped>>
       ELSE IF Len(errC) < channelBufferSize
       THEN errC' = Append(errC, pending[t]) /\ UNCHANGED dropped
       ELSE /\ dropped' = [dropped EXCEPT !.errC = @ \cup {Head(errC)}]
            /\ errC' = Append(Tail(errC), pending[t])
    /\ pending' = [pending EXCEPT ![t] = NoEvent]
    /\ closedMx' = Free
    /\ UNCHANGED <<statsC, closedFlag, chanClosed, panicked>>

\* tlproc.go:256-267, after Lock: the select on p.closed and the non-blocking
\* send on errC, then the deferred Unlock.
sendError(t) ==
    /\ IF closedFlag
       THEN UNCHANGED <<errC, dropped>>
       ELSE IF Len(errC) < channelBufferSize
       THEN errC' = Append(errC, pending[t]) /\ UNCHANGED dropped
       ELSE dropped' = [dropped EXCEPT !.errC = @ \cup {pending[t]}] /\ UNCHANGED errC
    /\ pending' = [pending EXCEPT ![t] = NoEvent]
    /\ closedMx' = Free
    /\ UNCHANGED <<statsC, closedFlag, chanClosed, panicked>>

\* tlproc.go:269-280, after Lock: the same for statsC.
sendStats(t) ==
    /\ IF closedFlag
       THEN UNCHANGED <<statsC, dropped>>
       ELSE IF Len(statsC) < channelBufferSize
       THEN statsC' = Append(statsC, pending[t]) /\ UNCHANGED dropped
       ELSE dropped' = [dropped EXCEPT !.statsC = @ \cup {pending[t]}] /\ UNCHANGED statsC
    /\ pending' = [pending EXCEPT ![t] = NoEvent]
    /\ closedMx' = Free
    /\ UNCHANGED <<errC, closedFlag, chanClosed, panicked>>

\* ---------------------------------------------------- the wait goroutine
\* Mutant of WaitReturn: the error of cmd.Wait is tested the wrong way round.
WaitReturnInverted ==
    /\ "wait" \in threads
    /\ waitPc = "wait"
    /\ proc = "exited"
    /\ stderrClosed' = TRUE
    /\ IF waitErr # "nil"
       THEN waitPc' = "done" /\ UNCHANGED pending
       ELSE /\ waitPc' = "lock"
            /\ pending' = [pending EXCEPT
                 !["wait"] = [src |-> "wait", id |-> 0, text |-> "process died"]]
    /\ UNCHANGED <<proc, procUp, waitErr, kills, emitted, osPipe>>
    /\ UNCHANGED <<closedMx, dropped>>
    /\ UNCHANGED <<newVars, copyVars, pollVars, chanVars,
                   watchVars, closeVars, recvVars>>
    /\ UNCHANGED helperVars

\* tlproc.go:170-175: cmd.Wait returns once the subprocess has exited, and
\* closes the parent's end of the stderr pipe; a nil error ends the goroutine.
WaitReturn ==
    /\ "wait" \in threads
    /\ waitPc = "wait"
    /\ proc = "exited"
    /\ stderrClosed' = TRUE
    /\ IF waitErr = "nil"
       THEN waitPc' = "done" /\ UNCHANGED pending
       ELSE /\ waitPc' = "lock"
            /\ pending' = [pending EXCEPT
                 !["wait"] = [src |-> "wait", id |-> 0, text |-> "process died"]]
    /\ UNCHANGED <<proc, procUp, waitErr, kills, emitted, osPipe>>
    /\ UNCHANGED <<closedMx, dropped>>
    /\ UNCHANGED <<newVars, copyVars, pollVars, chanVars,
                   watchVars, closeVars, recvVars>>
    /\ UNCHANGED helperVars

\* tlproc.go:257: sendError takes p.closedMx.
WaitLock ==
    /\ waitPc = "lock"
    /\ Lock(Goroutine("wait"))
    /\ waitPc' = "cs"
    /\ UNCHANGED <<pending, dropped>>
    /\ UNCHANGED <<newVars, procVars, copyVars, pollVars, chanVars,
                   watchVars, closeVars, recvVars>>
    /\ UNCHANGED helperVars

\* tlproc.go:175, 258-266: the "process died" event is sent or discarded.
WaitSend ==
    /\ waitPc = "cs"
    /\ sendError("wait")
    /\ waitPc' = "done"
    /\ UNCHANGED <<newVars, procVars, copyVars, pollVars,
                   watchVars, closeVars, recvVars>>
    /\ UNCHANGED helperVars

\* ---------------------------------------------------- the copy goroutine
\* tlproc.go:368-371: c.from.Read. A closed pipe gives os.ErrClosed, which ends
\* the goroutine silently (tlproc.go:178); data gives a chunk; end of file gives
\* a read error that is reported; otherwise the read blocks.
CopyRead ==
    /\ "copy" \in threads
    /\ copyPc = "read"
    /\ stderrClosed \/ osPipe # <<>> \/ proc = "exited"
    /\ IF stderrClosed
       THEN copyPc' = "done" /\ UNCHANGED <<copyBuf, osPipe, pending>>
       ELSE IF osPipe # <<>>
       THEN /\ copyBuf' = <<Head(osPipe)>>
            /\ osPipe' = Tail(osPipe)
            /\ copyPc' = "select"
            /\ UNCHANGED pending
       ELSE /\ copyPc' = "lock"
            /\ pending' = [pending EXCEPT
                 !["copy"] = [src |-> "copy", id |-> 0, text |-> "error reading stderr"]]
            /\ UNCHANGED <<copyBuf, osPipe>>
    /\ UNCHANGED <<proc, procUp, waitErr, kills, emitted, stderrClosed>>
    /\ UNCHANGED <<stderrBuf, rPipe, copierTo, copierMx, stopC>>
    /\ UNCHANGED <<closedMx, dropped>>
    /\ UNCHANGED <<newVars, pollVars, chanVars,
                   watchVars, waitPc, closeVars, recvVars>>
    /\ UNCHANGED helperVars

\* tlproc.go:372-375: the select on stopC; stopped, copy returns nil.
CopyCheckStop ==
    /\ copyPc = "select"
    /\ IF stopC
       THEN copyPc' = "done" /\ copyBuf' = <<>>
       ELSE copyPc' = "wlock" /\ UNCHANGED copyBuf
    /\ UNCHANGED <<stderrBuf, rPipe, copierTo, copierMx, stopC>>
    /\ UNCHANGED <<newVars, procVars, pollVars, chanVars, sendVars,
                   watchVars, waitPc, closeVars, recvVars>>
    /\ UNCHANGED helperVars

\* tlproc.go:360: protectedWrite takes the copier's mutex.
CopyLock ==
    /\ copyPc = "wlock"
    /\ copierMx = Free
    /\ copierMx' = Goroutine("copy")
    /\ copyPc' = "write"
    /\ UNCHANGED <<stderrBuf, rPipe, copierTo, stopC, copyBuf>>
    /\ UNCHANGED <<newVars, procVars, pollVars, chanVars, sendVars,
                   watchVars, waitPc, closeVars, recvVars>>
    /\ UNCHANGED helperVars

\* tlproc.go:361-362, 334-339: c.to.Write into the start-up buffer, then Unlock.
\* (A write to the pipe completes in WatchScan, when the reader takes it.)
CopyWrite ==
    /\ copyPc = "write"
    /\ copierTo = "buf"
    /\ stderrBuf' = stderrBuf \o copyBuf
    /\ copyBuf' = <<>>
    /\ copierMx' = Free
    /\ copyPc' = "read"
    /\ UNCHANGED <<rPipe, copierTo, stopC>>
    /\ UNCHANGED <<newVars, procVars, pollVars, chanVars, sendVars,
                   watchVars, waitPc, closeVars, recvVars>>
    /\ UNCHANGED helperVars

\* tlproc.go:179, 257: the read error is reported with sendError.
CopyErrLock ==
    /\ copyPc = "lock"
    /\ Lock(Goroutine("copy"))
    /\ copyPc' = "cs"
    /\ UNCHANGED <<pending, dropped>>
    /\ UNCHANGED <<stderrBuf, rPipe, copierTo, copierMx, stopC, copyBuf>>
    /\ UNCHANGED <<newVars, procVars, pollVars, chanVars,
                   watchVars, waitPc, closeVars, recvVars>>
    /\ UNCHANGED helperVars

CopyErrSend ==
    /\ copyPc = "cs"
    /\ sendError("copy")
    /\ copyPc' = "done"
    /\ UNCHANGED <<stderrBuf, rPipe, copierTo, copierMx, stopC, copyBuf>>
    /\ UNCHANGED <<newVars, procVars, pollVars,
                   watchVars, waitPc, closeVars, recvVars>>
    /\ UNCHANGED helperVars

\* ---------------------------------------------------- the poll goroutine
\* Mutant of PollCheckHealth: the result of CheckHealth is tested the wrong way
\* round, so a failed health check ends the loop.
PollCheckHealthInverted ==
    /\ "poll" \in threads
    /\ pollPc = "sleep"
    /\ IF proc = "running" /\ procUp
       THEN healthOk' = TRUE /\ UNCHANGED pollPc
       ELSE pollPc' = "signal" /\ UNCHANGED healthOk
    /\ UNCHANGED serverUp
    /\ UNCHANGED <<newVars, procVars, copyVars, chanVars, sendVars,
                   watchVars, waitPc, closeVars, recvVars>>
    /\ UNCHANGED helperVars

\* tlproc.go:183-185: sleep pollWaitTime, then CheckHealth; it succeeds when the
\* subprocess is serving, and the loop goes round when it fails.
PollCheckHealth ==
    /\ "poll" \in threads
    /\ pollPc = "sleep"
    /\ IF proc = "running" /\ procUp
       THEN healthOk' = TRUE /\ pollPc' = "signal"
       ELSE UNCHANGED <<healthOk, pollPc>>
    /\ UNCHANGED serverUp
    /\ UNCHANGED <<newVars, procVars, copyVars, chanVars, sendVars,
                   watchVars, waitPc, closeVars, recvVars>>
    /\ UNCHANGED helperVars

\* tlproc.go:186-187: close(serverUp) and return.
PollSignal ==
    /\ pollPc = "signal"
    /\ serverUp' = TRUE
    /\ pollPc' = "done"
    /\ UNCHANGED healthOk
    /\ UNCHANGED <<newVars, procVars, copyVars, chanVars, sendVars,
                   watchVars, waitPc, closeVars, recvVars>>
    /\ UNCHANGED helperVars

\* --------------------------------------------------------- watchStderr
\* strings.HasPrefix and strings.TrimPrefix on a line, and json.Unmarshal of
\* a stats body into a CaptureStats: <<value, err>>.
HasPrefix(line, prefix) == line.prefix = prefix
TrimPrefix(line, prefix) == IF line.prefix = prefix THEN line.body ELSE line.prefix \o line.body
Unmarshal(body) == IF body = "json" THEN <<"stats", "nil">> ELSE <<"", "error">>

\* tlproc.go:238-252: the switch on the line the scanner returned.
dispatch(line) ==
    /\ watched' = Append(watched, line)
    /\ IF HasPrefix(line, errorPrefix)
       THEN /\ pending' = [pending EXCEPT !["watch"] =
                 [src |-> "stderr", id |-> line.id, text |-> TrimPrefix(line, errorPrefix)]]
            /\ watchPc' = "elock"
       ELSE IF HasPrefix(line, statsPrefix)
       THEN IF Unmarshal(TrimPrefix(line, statsPrefix))[2] # "nil"
            THEN /\ pending' = [pending EXCEPT !["watch"] =
                      [src |-> "stderr", id |-> line.id, text |-> "failed to unmarshal stats"]]
                 /\ watchPc' = "elock"
            ELSE /\ pending' = [pending EXCEPT !["watch"] =
                      [src |-> "stderr", id |-> line.id,
                       text |-> Unmarshal(TrimPrefix(line, statsPrefix))[1]]]
                 /\ watchPc' = "slock"
       ELSE /\ watchPc' = "scan"
            /\ UNCHANGED pending

\* tlproc.go:237, 254: scanner.Scan meets a line it cannot hold and returns
\* false (bufio.ErrTooLong); the loop ends and watchStderr returns.
scanStops ==
    /\ watchPc' = "done"
    /\ UNCHANGED <<watched, pending>>

\* tlproc.go:237, 204: scanner.Scan reads the next line from the start-up buffer.
WatchScanBuf ==
    /\ watchPc = "scan"
    /\ watchSrc = "buf"
    /\ stderrBuf # <<>>
    /\ IF TooLong(Head(stderrBuf))
       THEN scanStops
       ELSE dispatch(Head(stderrBuf))
    /\ stderrBuf' = Tail(stderrBuf)
    /\ UNCHANGED <<rPipe, copierTo, copierMx, stopC, copyPc, copyBuf>>
    /\ UNCHANGED <<watchSrc, closedMx, dropped>>
    /\ UNCHANGED <<newVars, procVars, pollVars, chanVars,
                   waitPc, closeVars, recvVars>>
    /\ UNCHANGED helperVars

\* tlproc.go:204: the empty buffer answers io.EOF and the MultiReader moves on
\* to the pipe for good.
WatchBufEOF ==
    /\ watchPc = "scan"
    /\ watchSrc = "buf"
    /\ stderrBuf = <<>>
    /\ watchSrc' = "pipe"
    /\ UNCHANGED <<watchPc, watched>>
    /\ UNCHANGED <<newVars, procVars, copyVars, pollVars, chanVars, sendVars,
                   waitPc, closeVars, recvVars>>
    /\ UNCHANGED helperVars

\* tlproc.go:237, 361-362: scanner.Scan reads from the pipe what the copy
\* goroutine is writing to it; the write returns and the copier unlocks.
WatchScanPipe ==
    /\ watchPc = "scan"
    /\ watchSrc = "pipe"
    /\ copyPc = "write"
    /\ copierTo = "pipe"
    /\ IF TooLong(Head(copyBuf))
       THEN /\ scanStops
            \* the scanner's buffer is full before or when the writer is done
            /\ \E whole \in BOOLEAN :
                 IF whole
                 THEN copyBuf' = <<>> /\ copierMx' = Free /\ copyPc' = "read"
                 ELSE UNCHANGED <<copyBuf, copierMx, copyPc>>
       ELSE /\ dispatch(Head(copyBuf))
            /\ copyBuf' = <<>>
            /\ copierMx' = Free
            /\ copyPc' = "read"
    /\ UNCHANGED <<stderrBuf, rPipe, copierTo, stopC>>
    /\ UNCHANGED <<watchSrc, closedMx, dropped>>
    /\ UNCHANGED <<newVars, procVars, pollVars, chanVars,
                   waitPc, closeVars, recvVars>>
    /\ UNCHANGED helperVars

\* tlproc.go:257, 270: sendError or sendStats takes p.closedMx.
WatchLock ==
    /\ watchPc \in {"elock", "slock"}
    /\ Lock(Goroutine("watch"))
    /\ watchPc' = IF watchPc = "elock" THEN "ecs" ELSE "scs"
    /\ UNCHANGED <<watchSrc, watched, pending, dropped>>
    /\ UNCHANGED <<newVars, procVars, copyVars, pollVars, chanVars,
                   waitPc, closeVars, recvVars>>
    /\ UNCHANGED helperVars

\* tlproc.go:241, 246, 258-266: the error event is sent or discarded.
WatchSendError ==
    /\ watchPc = "ecs"
    /\ sendError("watch")
    /\ watchPc' = "scan"
    /\ UNCHANGED <<watchSrc, watched>>
    /\ UNCHANGED <<newVars, procVars, copyVars, pollVars,
                   waitPc, closeVars, recvVars>>
    /\ UNCHANGED helperVars

\* tlproc.go:249, 271-279: the statistics event is sent or discarded.
WatchSendStats ==
    /\ watchPc = "scs"
    /\ sendStats("watch")
    /\ watchPc' = "scan"
    /\ UNCHANGED <<watchSrc, watched>>
    /\ UNCHANGED <<newVars, procVars, copyVars, pollVars,
                   waitPc, closeVars, recvVars>>
    /\ UNCHANGED helperVars

\* --------------------------------------------------------------- Close
\* tlproc.go:221-222: a caller that holds the handle calls Close, which takes
\* p.closedMx.  The callers are interchangeable: they are numbered in the order
\* in which they take the mutex.
CloseLock(i) ==
    /\ newResult = "handle"
    /\ closePc[i] = "idle"
    /\ \A j \in Closers : j < i => closePc[j] # "idle"
    /\ Lock(Closer(i))
    /\ closePc' = [closePc EXCEPT ![i] = "cs"]
    /\ UNCHANGED <<closeRet, pending, dropped>>
    /\ UNCHANGED <<newVars, procVars, copyVars, pollVars, chanVars,
                   watchVars, waitPc, recvVars>>
    /\ UNCHANGED helperVars

\* tlproc.go:223-232: the select.  The receive from p.closed is ready only when
\* p.closed is closed, and then close(p.closed) at line 226 panics, so lines
\* 227-229 (closing errC and statsC, killing the subprocess) never run; while
\* p.closed is open the default case returns nil.  The deferred Unlock runs
\* either way.
CloseSelect(i) ==
    /\ closePc[i] = "cs"
    /\ IF closedFlag
       THEN /\ panicked' = TRUE
            /\ closeRet' = [closeRet EXCEPT ![i] = "panic"]
       ELSE /\ closeRet' = [closeRet EXCEPT ![i] = "nil"]
            /\ UNCHANGED panicked
    /\ closedMx' = Free
    /\ closePc' = [closePc EXCEPT ![i] = "ret"]
    /\ UNCHANGED <<errC, statsC, closedFlag, chanClosed>>
    /\ UNCHANGED <<pending, dropped>>
    /\ UNCHANGED <<newVars, procVars, copyVars, pollVars,
                   watchVars, waitPc, recvVars>>
    /\ UNCHANGED helperVars

\* ------------------------------------------------------- the consumers
\* tlproc.go:211-213: a receive from Errors().
RecvError ==
    /\ newResult = "handle"
    /\ Len(errC) > 0
    /\ errRecv' = Append(errRecv, Head(errC))
    /\ errC' = Tail(errC)
    /\ UNCHANGED <<statsRecv, statsC, closedFlag, chanClosed, panicked>>
    /\ UNCHANGED <<newVars, procVars, copyVars, pollVars, sendVars,
                   watchVars, waitPc, closeVars>>
    /\ UNCHANGED helperVars

\* tlproc.go:216-218: a receive from Stats().
RecvStats ==
    /\ newResult = "handle"
    /\ Len(statsC) > 0
    /\ statsRecv' = Append(statsRecv, Head(statsC))
    /\ statsC' = Tail(statsC)
    /\ UNCHANGED <<errRecv, errC, closedFlag, chanClosed, panicked>>
    /\ UNCHANGED <<newVars, procVars, copyVars, pollVars, sendVars,
                   watchVars, waitPc, closeVars>>
    /\ UNCHANGED helperVars

\* ---------------------------------------------------- the specification
Next ==
    \/ NewStat
    \/ NewPrepare
    \/ NewSpawn
    \/ NewSelectErr
    \/ NewSelectTimeout
    \/ NewStop
    \/ NewSelectUp
    \/ NewSwitchWriter
    \/ ProcListen
    \/ ProcEmit
    \/ ProcExit
    \/ ExternalKill
    \/ WaitReturn
    \/ WaitLock
    \/ WaitSend
    \/ CopyRead
    \/ CopyCheckStop
    \/ CopyLock
    \/ CopyWrite
    \/ CopyErrLock
    \/ CopyErrSend
    \/ PollCheckHealth
    \/ PollSignal
    \/ WatchScanBuf
    \/ WatchBufEOF
    \/ WatchScanPipe
    \/ WatchLock
    \/ WatchSendError
    \/ WatchSendStats
    \/ \E i \in Closers : CloseLock(i)
    \/ \E i \in Closers : CloseSelect(i)
    \/ RecvError
    \/ RecvStats

Spec == Init /\ [][Next]_vars

\* ------------------------------------------------- a burst of one shape
\* New(captureBytes, saveBytes, installDir, nil) on an installed binary
\* (tlproc_test.go:36), a subprocess that writes BurstLines lines of one shape,
\* and no consumer of Errors() or Stats().
BurstInit ==
    /\ \E s \in LineShapes :
          InitWith([lines |-> BurstLines, shapes |-> {s}], "ok",
                   [mutator |-> "nil", timeout |-> FALSE])
    /\ HelpersIdle

BurstNext ==
    \/ NewStat
    \/ NewPrepare
    \/ NewSpawn
    \/ NewSelectErr
    \/ NewStop
    \/ NewSelectUp
    \/ NewSwitchWriter
    \/ ProcListen
    \/ ProcEmit
    \/ ProcExit
    \/ ExternalKill
    \/ WaitReturn
    \/ WaitLock
    \/ WaitSend
    \/ CopyRead
    \/ CopyCheckStop
    \/ CopyLock
    \/ CopyWrite
    \/ CopyErrLock
    \/ CopyErrSend
    \/ PollCheckHealth
    \/ PollSignal
    \/ WatchScanBuf
    \/ WatchBufEOF
    \/ WatchScanPipe
    \/ WatchLock
    \/ WatchSendError
    \/ WatchSendStats
    \/ \E i \in Closers : CloseLock(i)
    \/ \E i \in Closers : CloseSelect(i)

BurstSpec == BurstInit /\ [][BurstNext]_vars

\* ------------------------------------------------ fair scheduling
\* New(captureBytes, saveBytes, installDir, opts) on an installed binary with
\* a StartTimeout, under a scheduler that lets every thread of the program that
\* can take a step take one eventually. Nothing is assumed of the subprocess
\* or of what may kill it.
LiveInit ==
    /\ InitWith([lines |-> MaxLines, shapes |-> LineShapes], "ok",
                [mutator |-> "nil", timeout |-> TRUE])
    /\ HelpersIdle

NewThread ==
    NewStat \/ NewPrepare \/ NewSpawn \/ NewSelectErr \/ NewSelectTimeout
        \/ NewStop \/ NewSelectUp \/ NewSwitchWriter
WaitThread == WaitReturn \/ WaitLock \/ WaitSend
CopyThread ==
    CopyRead \/ CopyCheckStop \/ CopyLock \/ CopyWrite \/ CopyErrLock \/ CopyErrSend
PollThread == PollCheckHealth \/ PollSignal
WatchThread ==
    WatchScanBuf \/ WatchBufEOF \/ WatchScanPipe \/ WatchLock
        \/ WatchSendError \/ WatchSendStats
CloseThread(i) == CloseLock(i) \/ CloseSelect(i)
Consumers == RecvError \/ RecvStats

Fairness ==
    /\ WF_vars(NewThread)
    /\ WF_vars(WaitThread)
    /\ WF_vars(CopyThread)
    /\ WF_vars(PollThread)
    /\ WF_vars(WatchThread)
    /\ \A i \in Closers : WF_vars(CloseThread(i))
    /\ WF_vars(Consumers)

LiveSpec == LiveInit /\ [][Next]_vars /\ Fairness

\* ------------------------------------------- lines of any length
\* New(captureBytes, saveBytes, installDir, nil) on an installed binary, a
\* subprocess that writes up to MaxLines lines of any shape and any length, and
\* consumers of Errors() and Stats().
WatchInit ==
    /\ InitWith([lines |-> MaxLines, shapes |-> LineShapes \cup LongShapes], "ok",
                [mutator |-> "nil", timeout |-> FALSE])
    /\ HelpersIdle

WatchNext ==
    \/ BurstNext
    \/ RecvError
    \/ RecvStats

WatchSpec == WatchInit /\ [][WatchNext]_vars

\* =====================================================================
\* Properties of the process supervisor.
\* =====================================================================
Range(seq) == {seq[k] : k \in 1..Len(seq)}
IsStderrEvent(e) == e.src = "stderr"
IsProcessDied(e) == e.src = "wait"

\* The threads inside a critical section of p.closedMx.
InCriticalSection ==
    (IF waitPc = "cs" THEN {Goroutine("wait")} ELSE {})
    \cup (IF copyPc = "cs" THEN {Goroutine("copy")} ELSE {})
    \cup (IF watchPc \in {"ecs", "scs"} THEN {Goroutine("watch")} ELSE {})
    \cup {Closer(i) : i \in {j \in Closers : closePc[j] = "cs"}}

\* C1: whenever a Close call has returned while the subprocess is still running,
\* Close has issued a kill to the subprocess.
C1_CloseKillsSubprocess ==
    ((\E i \in Closers : closePc[i] = "ret") /\ proc = "running") => kills.close >= 1

\* C2: once a Close call has returned, the error stream and the statistics
\* stream are both closed.
C2_CloseClosesStreams ==
    (\E i \in Closers : closePc[i] = "ret")
        => (chanClosed.errC >= 1 /\ chanClosed.statsC >= 1)

\* C3: when all N Close calls have returned, the subprocess has been killed by
\* Close exactly once, each stream has been closed exactly once, nothing has
\* panicked and every call after the first has returned nil.
C3_CloseExactlyOnce ==
    (\A i \in Closers : closePc[i] = "ret")
        => /\ kills.close = 1
           /\ chanClosed.errC = 1
           /\ chanClosed.statsC = 1
           /\ chanClosed.closed = 1
           /\ ~panicked
           /\ \A i \in Closers : i > 1 => closeRet[i] = "nil"

C8_HandleOnlyAfterHealthCheck ==
    (newResult = "handle" \/ newPc = "switch")
        => (healthOk /\ serverUp /\ pollPc = "done")

\* New has returned the handle.
C8_Witness ==
    /\ newResult = "handle"
    /\ newPc = "done"
    /\ healthOk

\* C9: if New has returned an error after spawning the subprocess, New has
\* issued a kill, the subprocess is no longer running and the copier's stop
\* channel is closed.
C9_ErrorLeavesNoSubprocess ==
    (newResult = "error" /\ proc # "none")
        => (kills.new >= 1 /\ proc = "exited" /\ stopC)

\* New has returned an error after the start timeout elapsed on a subprocess
\* that was still running, so that it was New's kill that ended it.
C9_Witness ==
    /\ newResult = "error"
    /\ kills.new = 1
    /\ kills.early = 0
    /\ waitErr = "killed"
    /\ stopC

\* C10: with no binary at <installDir>/tlserver, New returns an error at once:
\* no subprocess is spawned, no socket path is made and no thread is started.
C10_MissingBinaryFailsEarly ==
    statRes = "notexist"
        => /\ newPc # "stat" => (newResult = "error" /\ newPc = "done")
           /\ proc = "none"
           /\ ~socketMade
           /\ threads = {}

\* New has returned its error for a missing binary.
C10_Witness ==
    /\ statRes = "notexist"
    /\ newResult = "error"

\* The stream the event of a stderr line belongs to, "none" for a line that
\* yields no event.
StreamOf(line) ==
    IF line.prefix = errorPrefix THEN "errC"
    ELSE IF line.prefix = statsPrefix
         THEN (IF line.body = "json" THEN "statsC" ELSE "errC")
         ELSE "none"

\* The events of stderr lines that a stream has carried: received, then queued.
StderrEvents(recv, queue) == SelectSeq(recv \o queue, IsStderrEvent)

\* The event of a line the scanner returned is on its stream, or about to be
\* sent, or was discarded on a full queue.
Accounted(line) ==
    \/ StreamOf(line) = "none"
    \/ pending["watch"].id = line.id
    \/ /\ StreamOf(line) = "errC"
       /\ \E e \in Range(StderrEvents(errRecv, errC)) \cup dropped.errC : e.id = line.id
    \/ /\ StreamOf(line) = "statsC"
       /\ \E e \in Range(StderrEvents(statsRecv, statsC)) \cup dropped.statsC : e.id = line.id

\* The events of evs come from lines the scanner returned, in the order in which
\* it returned them.
InWatchedOrder(evs) ==
    /\ \A i \in 1..Len(evs) : \E a \in 1..Len(watched) : watched[a].id = evs[i].id
    /\ \A i, j \in 1..Len(evs) :
         i < j => \E a, b \in 1..Len(watched) :
                     a < b /\ watched[a].id = evs[i].id /\ watched[b].id = evs[j].id

\* C5 (no consumer reads): neither queue ever holds more than channelBufferSize
\* events; a producer that holds p.closedMx can always complete its send, so the
\* watch thread is never blocked by a full queue; every line the scanner returned
\* is accounted for; and an event is discarded only on a queue that is full.
C5_NonBlockingDelivery ==
    /\ Len(errC) <= channelBufferSize
    /\ Len(statsC) <= channelBufferSize
    /\ watchPc = "ecs" => ENABLED WatchSendError
    /\ watchPc = "scs" => ENABLED WatchSendStats
    /\ waitPc = "cs" => ENABLED WaitSend
    /\ copyPc = "cs" => ENABLED CopyErrSend
    /\ \A k \in 1..Len(watched) : Accounted(watched[k])
    /\ dropped.errC # {} => Len(errC) = channelBufferSize
    /\ dropped.statsC # {} => Len(statsC) = channelBufferSize

\* The error queue is full, an event that did not fit has been discarded, and
\* the watch thread is back at its scanner having read more lines than a queue
\* holds.
C5_Witness ==
    /\ Len(errC) = channelBufferSize
    /\ \E e \in dropped.errC : IsStderrEvent(e)
    /\ Len(watched) > channelBufferSize
    /\ watchPc = "scan"

\* C6: the stderr-line events carried by the statistics stream, and those
\* carried by the error stream, are in the order in which the scanner returned
\* their lines, and a line's event is missing from its stream only if it was
\* discarded on a full queue.
C6_OrderPreserved ==
    /\ InWatchedOrder(StderrEvents(errRecv, errC))
    /\ InWatchedOrder(StderrEvents(statsRecv, statsC))
    /\ \A k \in 1..Len(watched) : Accounted(watched[k])

\* The consumer has received two statistics events.
C6_Witness ==
    /\ Len(statsRecv) >= 2
    /\ Len(watched) >= 2

DiedEvents(recv, queue) == SelectSeq(recv \o queue, IsProcessDied)
DiedDropped == {e \in dropped.errC : IsProcessDied(e)}
KilledAfterStart == newResult = "handle" /\ kills.external = 1 /\ waitPc = "done"
CloseHarmless ==
    /\ \A i \in Closers : closePc[i] = "ret" => closeRet[i] = "nil"
    /\ ~panicked
    /\ chanClosed.errC <= 1 /\ chanClosed.statsC <= 1 /\ chanClosed.closed <= 1

\* C7 as stated: once the subprocess has been killed externally after New
\* returned the handle and the wait thread has finished, the error stream has
\* received exactly one "process died" event, and Close returns nil without
\* closing anything twice.
C7_ExactlyOneProcessDied ==
    /\ KilledAfterStart => Len(DiedEvents(errRecv, errC)) = 1
    /\ CloseHarmless

\* C7 as amended: the wait thread sends one "process died" event; the error
\* stream receives it unless the error queue is full at that moment, and then
\* it is discarded; Close returns nil without closing anything twice.
C7_ProcessDiedUnlessFull ==
    /\ Len(DiedEvents(errRecv, errC)) + Cardinality(DiedDropped) <= 1
    /\ KilledAfterStart =>
         \/ Len(DiedEvents(errRecv, errC)) = 1
         \/ DiedDropped # {} /\ Len(errC) = channelBufferSize
    /\ CloseHarmless

\* The subprocess was killed externally after the start, the error stream holds
\* the one "process died" event, one Close call has returned nil and another is
\* inside Close.
C7_Witness ==
    /\ KilledAfterStart
    /\ Len(DiedEvents(errRecv, errC)) = 1
    /\ NClosers >= 2
    /\ closePc[1] = "ret" /\ closeRet[1] = "nil"
    /\ closePc[2] = "cs"

\* =====================================================================
\* The install protocol: exit codes, errors, Install.
\* =====================================================================
\* A larger exit code than the helpers use, so that a run can end with a code
\* outside the taxonomy.
MaxExitCode == 5

\* exitcodes: the codes shared by the helpers and their callers.
UnexpectedFailure == 1
BadInput == 2
FailedCheck == 3
Outdated == 4

\* A Go error is the chain Unwrap walks, outermost first; nil is the empty chain.
nil == <<>>
\* One error of a chain: its Go type, its exit code (an *exec.ExitError only)
\* and its own message.
Layer(kind, code, msg) == [kind |-> kind, code |-> code, msg |-> msg]
\* errors.New(msg)
errorsNew(msg) == <<Layer("errorString", 0, msg)>>
\* fmt.Errorf("msg: %w", e)
Errorf(msg, e) == <<Layer("wrapError", 0, msg)>> \o e
\* fmt.Errorf("msg: %v", e): the text only, nothing to unwrap.
ErrorfV(msg, e) == <<Layer("errorString", 0, msg)>>
\* errors.Is(e, target) for a target that is a single sentinel.
errorsIs(e, target) == \E k \in 1..Len(e) : e[k] = target[1]
\* errors.As(e, &x) for x of the type named kind.
errorsAs(e, kind) == \E k \in 1..Len(e) : e[k].kind = kind
\* The *exec.ExitError of a command that exited with a non-zero code.
ExitError(code) == <<Layer("ExitError", code, "exit status")>>
\* exitErr.ExitCode() after errors.As(e, &exitErr) succeeded.
ExitCode(e) ==
    LET k == CHOOSE i \in 1..Len(e) :
                 e[i].kind = "ExitError" /\ \A j \in 1..(i - 1) : e[j].kind # "ExitError"
    IN e[k].code

ErrPermissionDenied == errorsNew("user denied permission")
tlconfigOpts == <<>>

\* What CombinedOutput can return for a command: nil, an exit with a non-zero
\* code, or a failure to launch it.
CommandResults ==
    {nil, errorsNew("failed to launch")} \cup {ExitError(c) : c \in 1..MaxExitCode}

\* install.go:561-572
isPermissionError(elevateErr) ==
    IF installArgs.GOOS # "darwin"
    THEN FALSE
    ELSE errorsAs(elevateErr, "ExitError")

\* Mutant of runErr: the error of the elevated command is handed on as it is.
runErrUnmapped(e, raw) == raw

\* install.go:375-390, the error run returns when the command returned raw.
runErr(e, raw) ==
    IF e.prompt # "" /\ raw # nil /\ isPermissionError(raw)
    THEN ErrPermissionDenied
    ELSE raw

\* install.go:375-390, the command run executes: its arguments and whether it
\* goes through elevate.WithPrompt(e.prompt).WithIcon(e.icon).
runCommand(e, runOpts, raw) ==
    [args   |-> tlconfigOpts \o runOpts \o e.args,
     via    |-> IF e.prompt # "" THEN "elevate" ELSE "direct",
     prompt |-> e.prompt,
     icon   |-> e.icon,
     raw    |-> raw]

\* install.go:357-372, 489: the tlconfigExec after setArgs(dir, resourcesPath,
\* uninstallSentinel, user).
tlconfig ==
    [args |-> <<"dir", "resourcesPath", "uninstallSentinel", "user">>,
     prompt |-> "", icon |-> ""]

\* install.go:393-395
elevate(e, prompt, icon) == [args |-> e.args, prompt |-> prompt, icon |-> icon]

\* Mutant of InstallReturn: the deferred os.RemoveAll does not run.
InstallReturnNoCleanup(e) ==
    /\ installRet' = e
    /\ installPc' = "done"
    /\ UNCHANGED resourcesPath

\* A return of Install: the deferred os.RemoveAll(resourcesPath) of line 464
\* runs if it was registered.
InstallReturn(e) ==
    /\ installRet' = e
    /\ installPc' = "done"
    /\ resourcesPath' = IF deferred THEN "removed" ELSE resourcesPath

\* The prompts and icons a caller passes: none, or some text / some path.
Prompts == {"", "prompt"}
Icons == {"", "icon"}
Platforms == {"darwin", "linux"}

\* Every variable of Install but its position, its result and the bundle.
installLocals == <<installArgs, deferred, tlconfigRuns, output, err, failedCheck, outdated>>

\* Everything Install leaves alone.
notInstallVars == <<tlprocVars, exitVars, bpfVars, moreVars>>

\* install.go:441-458: the platform, the uninstall sentinel, the install
\* directory.
InstallBegin ==
    /\ installPc = "start"
    /\ IF installArgs.GOOS # "darwin"
       THEN InstallReturn(errorsNew("unsupported platform"))
       ELSE \E pre \in {"ok", "sentinel", "mkdir"} :
              IF pre = "ok"
              THEN installPc' = "tempdir" /\ UNCHANGED <<installRet, resourcesPath>>
              ELSE IF pre = "sentinel"
              THEN InstallReturn(Errorf("failed to get uninstall sentinel",
                                        errorsNew("failed to get path to executable")))
              ELSE InstallReturn(Errorf("failed to create install directory",
                                        errorsNew("mkdir")))
    /\ UNCHANGED installLocals
    /\ UNCHANGED notInstallVars

\* install.go:460-464: ioutil.TempDir and the deferred removal.
InstallTempDir ==
    /\ installPc = "tempdir"
    /\ \E ok \in BOOLEAN :
         IF ok
         THEN /\ resourcesPath' = "exists"
              /\ deferred' = TRUE
              /\ installPc' = "bundle"
              /\ UNCHANGED installRet
         ELSE /\ InstallReturn(Errorf("failed to create temporary directory",
                                      errorsNew("tempdir")))
              /\ UNCHANGED deferred
    /\ UNCHANGED <<installArgs, tlconfigRuns, output, err, failedCheck, outdated>>
    /\ UNCHANGED notInstallVars

\* install.go:465-483: the two binaries are written into the bundle.
InstallBundle ==
    /\ installPc = "bundle"
    /\ \E f \in {"ok", "resources", "asset", "write"} :
         IF f = "ok"
         THEN installPc' = "load" /\ UNCHANGED <<installRet, resourcesPath>>
         ELSE IF f = "resources"
         THEN InstallReturn(Errorf("failed to create reference to resources directory",
                                   errorsNew("abs")))
         ELSE IF f = "asset"
         THEN InstallReturn(Errorf("failed to load binary", errorsNew("asset")))
         ELSE InstallReturn(Errorf("failed to write binary to resources directory",
                                   errorsNew("write")))
    /\ UNCHANGED installLocals
    /\ UNCHANGED notInstallVars

\* install.go:357-368, 485: loadTlconfig; a failed write removes the bundle
\* before loadTlconfig returns.
InstallLoadTlconfig ==
    /\ installPc = "load"
    /\ \E f \in {"ok", "asset", "write"} :
         IF f = "ok"
         THEN installPc' = "check" /\ UNCHANGED <<err, resourcesPath>>
         ELSE IF f = "asset"
         THEN /\ installPc' = "loadfail"
              /\ err' = Errorf("failed to load asset", errorsNew("asset"))
              /\ UNCHANGED resourcesPath
         ELSE /\ installPc' = "loadfail"
              /\ err' = Errorf("failed to write binary to disk", errorsNew("write"))
              /\ resourcesPath' = "removed"
    /\ UNCHANGED <<installArgs, installRet, deferred, tlconfigRuns, output,
                   failedCheck, outdated>>
    /\ UNCHANGED notInstallVars

\* install.go:486-488
InstallLoadFailed ==
    /\ installPc = "loadfail"
    /\ InstallReturn(Errorf("failed to load tlconfig", err))
    /\ UNCHANGED installLocals
    /\ UNCHANGED notInstallVars

\* install.go:496-500 and 531-537: tlconfig.run("-test") and the two flags read
\* from its exit code; first is FALSE for the run after the elevation.
RunTest(first, next) ==
    \E raw \in CommandResults, out \in BOOLEAN :
      LET e == runErr(tlconfig, raw) IN
        /\ tlconfigRuns' = Append(tlconfigRuns, runCommand(tlconfig, <<"-test">>, raw))
        /\ err' = e
        /\ output' = out
        /\ IF errorsAs(e, "ExitError")
           THEN /\ outdated' = (ExitCode(e) = Outdated)
                /\ failedCheck' = (ExitCode(e) = FailedCheck)
           ELSE IF first
           THEN UNCHANGED <<outdated, failedCheck>>
           ELSE outdated' = FALSE /\ failedCheck' = FALSE
        /\ installPc' = next
        /\ UNCHANGED <<installArgs, installRet, resourcesPath, deferred>>

\* install.go:496-500
InstallCheck ==
    /\ installPc = "check"
    /\ RunTest(TRUE, "switch")
    /\ UNCHANGED notInstallVars

\* install.go:514-516, 523-525: fmt.Errorf("%w: %s", err, lastLine(output))
\* when there is output.
WithLastLine(e) == IF output THEN Errorf("last line of output", e) ELSE e

\* Mutant of InstallCheckSwitch: an outdated binary is always replaced, whatever
\* opts.Overwrite says.
InstallCheckSwitchAlwaysOverwrite ==
    /\ installPc = "switch"
    /\ IF failedCheck \/ outdated
       THEN installPc' = "apply" /\ UNCHANGED <<installRet, resourcesPath>>
       ELSE IF err = nil
       THEN InstallReturn(nil)
       ELSE InstallReturn(Errorf("failed to run tlconfig -test", WithLastLine(err)))
    /\ UNCHANGED installLocals
    /\ UNCHANGED notInstallVars

\* Mutant of InstallCheckSwitch: Install asks for elevation whatever the first
\* check says.
InstallCheckSwitchAlwaysElevates ==
    /\ installPc = "switch"
    /\ installPc' = "apply"
    /\ UNCHANGED <<installRet, resourcesPath>>
    /\ UNCHANGED installLocals
    /\ UNCHANGED notInstallVars

\* install.go:501-518: the switch on the result of the first check.
InstallCheckSwitch ==
    /\ installPc = "switch"
    /\ IF failedCheck \/ (outdated /\ installArgs.Overwrite)
       THEN installPc' = "apply" /\ UNCHANGED <<installRet, resourcesPath>>
       ELSE IF err = nil \/ (outdated /\ ~installArgs.Overwrite)
       THEN InstallReturn(nil)
       ELSE InstallReturn(Errorf("failed to run tlconfig -test", WithLastLine(err)))
    /\ UNCHANGED installLocals
    /\ UNCHANGED notInstallVars

\* install.go:521: tlconfig.elevate(prompt, iconPath).run()
InstallApply ==
    /\ installPc = "apply"
    /\ \E raw \in CommandResults, out \in BOOLEAN :
         LET e == elevate(tlconfig, installArgs.prompt, installArgs.iconPath) IN
           /\ tlconfigRuns' = Append(tlconfigRuns, runCommand(e, <<>>, raw))
           /\ err' = runErr(e, raw)
           /\ output' = out
    /\ installPc' = "applied"
    /\ UNCHANGED <<installArgs, installRet, resourcesPath, deferred, failedCheck, outdated>>
    /\ UNCHANGED notInstallVars

\* install.go:522-527
InstallApplyResult ==
    /\ installPc = "applied"
    /\ IF err # nil
       THEN InstallReturn(Errorf("failed to run tlconfig", WithLastLine(err)))
       ELSE installPc' = "recheck" /\ UNCHANGED <<installRet, resourcesPath>>
    /\ UNCHANGED installLocals
    /\ UNCHANGED notInstallVars

\* install.go:531-537
InstallRecheck ==
    /\ installPc = "recheck"
    /\ RunTest(FALSE, "reswitch")
    /\ UNCHANGED notInstallVars

\* Mutant of InstallRecheckSwitch: the result of the second check is not looked
\* at.
InstallRecheckSwitchIgnored ==
    /\ installPc = "reswitch"
    /\ InstallReturn(nil)
    /\ UNCHANGED installLocals
    /\ UNCHANGED notInstallVars

\* install.go:538-558: the switch on the result of the second check.
InstallRecheckSwitch ==
    /\ installPc = "reswitch"
    /\ IF failedCheck \/ (outdated /\ installArgs.Overwrite)
       THEN InstallReturn(errorsNew("unexpected configuration failure"))
       ELSE IF err # nil
       THEN InstallReturn(errorsNew("unexpected failure running post-install check"))
       ELSE InstallReturn(nil)
    /\ UNCHANGED installLocals
    /\ UNCHANGED notInstallVars

\* New is not called while Install runs.
TlprocIdle ==
    InitWith([lines |-> 0, shapes |-> {}], "ok", [mutator |-> "nil", timeout |-> FALSE])

\* Install(dir, user, prompt, iconPath, opts) for every prompt, icon and
\* overwrite policy, on either kind of platform.
InstallInit ==
    /\ TlprocIdle
    /\ ExitIdle
    /\ BpfIdle
    /\ MoreIdle
    /\ \E p \in Prompts, i \in Icons, o \in BOOLEAN, g \in Platforms :
         installArgs = [prompt |-> p, iconPath |-> i, Overwrite |-> o, GOOS |-> g]
    /\ installPc = "start"
    /\ installRet = nil
    /\ resourcesPath = "none"
    /\ deferred = FALSE
    /\ tlconfigRuns = <<>>
    /\ output = FALSE
    /\ err = nil
    /\ failedCheck = FALSE
    /\ outdated = FALSE

InstallNext ==
    \/ InstallBegin
    \/ InstallTempDir
    \/ InstallBundle
    \/ InstallLoadTlconfig
    \/ InstallLoadFailed
    \/ InstallCheck
    \/ InstallCheckSwitch
    \/ InstallApply
    \/ InstallApplyResult
    \/ InstallRecheck
    \/ InstallRecheckSwitch

InstallSpec == InstallInit /\ [][InstallNext]_vars

\* =====================================================================
\* Properties of Install.
\* =====================================================================
IsTestRun(r) == \E k \in 1..Len(r.args) : r.args[k] = "-test"
\* The exit code of a run: 0 for success, -1 when the command did not launch.
RunExit(r) ==
    IF r.raw = nil THEN 0
    ELSE IF errorsAs(r.raw, "ExitError") THEN ExitCode(r.raw) ELSE -1
ChangesNeeded(r) ==
    \/ RunExit(r) = FailedCheck
    \/ RunExit(r) = Outdated /\ installArgs.Overwrite
NoChangeNeeded(r) ==
    \/ RunExit(r) = 0
    \/ RunExit(r) = Outdated /\ ~installArgs.Overwrite
InstallReturned == installPc = "done"
ElevatedRuns == {k \in 1..Len(tlconfigRuns) : tlconfigRuns[k].via = "elevate"}
ApplyRuns == {k \in 1..Len(tlconfigRuns) : ~IsTestRun(tlconfigRuns[k])}

\* C11 as stated: once Install has returned after its first check, it has
\* requested elevation if and only if that check exited with FailedCheck, or
\* with Outdated while opts.Overwrite is set.
C11_ElevationIffChangesNeeded ==
    (InstallReturned /\ Len(tlconfigRuns) >= 1) =>
        (ElevatedRuns # {} <=> ChangesNeeded(tlconfigRuns[1]))

\* C12: when the first check exits 0, or exits Outdated while opts.Overwrite is
\* not set, Install runs nothing else and returns nil.
C12_NoChangeReturnsNil ==
    (Len(tlconfigRuns) >= 1 /\ NoChangeNeeded(tlconfigRuns[1])) =>
        /\ installPc \in {"switch", "done"}
        /\ Len(tlconfigRuns) = 1
        /\ InstallReturned => installRet = nil

\* Install has returned nil after a single check that exited Outdated, with
\* opts.Overwrite not set.
C12_Witness ==
    /\ InstallReturned
    /\ Len(tlconfigRuns) = 1
    /\ RunExit(tlconfigRuns[1]) = Outdated
    /\ ~installArgs.Overwrite
    /\ installRet = nil

\* C13: when the elevated command returns an exit error, Install runs no second
\* check and returns an error that errors.Is matches with ErrPermissionDenied.
C13_DeclinedIsPermissionDenied ==
    \A k \in ElevatedRuns :
        errorsAs(tlconfigRuns[k].raw, "ExitError") =>
            /\ installPc \in {"applied", "done"}
            /\ Len(tlconfigRuns) = k
            /\ InstallReturned => errorsIs(installRet, ErrPermissionDenied)

\* Install has returned after the user declined the prompt, with the last line
\* of the output wrapped into the error.
C13_Witness ==
    /\ InstallReturned
    /\ output
    /\ \E k \in ElevatedRuns : errorsAs(tlconfigRuns[k].raw, "ExitError")
    /\ errorsIs(installRet, ErrPermissionDenied)
    /\ installRet # ErrPermissionDenied

\* C14: after an apply run that returned no error Install does not return
\* before it has run the check again, and it returns an error if that check
\* exits FailedCheck, or Outdated while opts.Overwrite is set.
C14_RecheckAfterElevation ==
    \A k \in ApplyRuns :
        tlconfigRuns[k].raw = nil =>
            /\ installPc \in {"applied", "recheck", "reswitch", "done"}
            /\ InstallReturned =>
                 /\ Len(tlconfigRuns) = k + 1
                 /\ IsTestRun(tlconfigRuns[k + 1])
                 /\ ChangesNeeded(tlconfigRuns[k + 1]) => installRet # nil

\* Install has returned an error after an elevated run without error whose
\* re-check exited FailedCheck.
C14_Witness ==
    /\ InstallReturned
    /\ Len(tlconfigRuns) = 3
    /\ tlconfigRuns[2].via = "elevate" /\ tlconfigRuns[2].raw = nil
    /\ RunExit(tlconfigRuns[3]) = FailedCheck
    /\ installRet # nil

\* C15 as stated: when the check after the elevation exits Outdated while
\* opts.Overwrite is not set, Install returns nil.
C15_RecheckToleratesOutdated ==
    (/\ InstallReturned
     /\ Len(tlconfigRuns) = 3
     /\ RunExit(tlconfigRuns[3]) = Outdated
     /\ ~installArgs.Overwrite) => installRet = nil

\* C16: when Install has returned, the temporary resource bundle it created no
\* longer exists.
C16_BundleRemoved ==
    InstallReturned =>
        /\ resourcesPath # "exists"
        /\ deferred => resourcesPath = "removed"

\* Install has returned an error after a failed re-check, and the bundle it had
\* created is gone.
C16_Witness ==
    /\ InstallReturned
    /\ deferred
    /\ resourcesPath = "removed"
    /\ Len(tlconfigRuns) = 3
    /\ installRet # nil

\* C17 as stated: every run of tlconfig without -test goes through elevate, with
\* the prompt and the icon the caller passed.
C17_ApplyOnlyElevated ==
    \A k \in ApplyRuns :
        /\ tlconfigRuns[k].via = "elevate"
        /\ tlconfigRuns[k].prompt = installArgs.prompt
        /\ tlconfigRuns[k].icon = installArgs.iconPath

\* =====================================================================
\* Package exitcodes: the errors of the helpers and their exit codes.
\* =====================================================================
\* How many times a failure is wrapped with %w before it reaches ExitWith.
MaxWraps == 2

Messages == {"", "not configured", "bad flag"}

\* part_003:222-225
ErrorFailedCheck(msg) == <<Layer("FailedCheckError", 0, msg)>>
\* part_003:242-245
ErrorOutdated(msg) == <<Layer("OutdatedError", 0, msg)>>
\* part_003:257-271: Unwrap returns the cause.
ErrorBadInput(msg, cause) == <<Layer("BadInputError", 0, msg)>> \o cause

\* Mutant of ExitWith: the switch has no case for an OutdatedError.
ExitWithNoOutdated(e) ==
    IF errorsAs(e, "FailedCheckError") THEN FailedCheck
    ELSE IF errorsAs(e, "BadInputError") THEN BadInput
    ELSE UnexpectedFailure

\* part_003:273-291: the exit code ExitWith ends the process with.
ExitWith(e) ==
    IF errorsAs(e, "FailedCheckError") THEN FailedCheck
    ELSE IF errorsAs(e, "OutdatedError") THEN Outdated
    ELSE IF errorsAs(e, "BadInputError") THEN BadInput
    ELSE UnexpectedFailure

\* part_003:293-305
ErrorFromCode(code, msg) ==
    IF code = FailedCheck THEN ErrorFailedCheck(msg)
    ELSE IF code = BadInput THEN ErrorBadInput(msg, nil)
    ELSE IF code = Outdated THEN ErrorOutdated(msg)
    ELSE errorsNew(msg)

\* Everything a helper leaves alone.
notExitVars == <<tlprocVars, installVars, bpfVars, moreVars>>

\* A helper fails with the error built from a code and a message.
HelperFail ==
    /\ exitPc = "start"
    /\ exitErr' = ErrorFromCode(exitIn.code, exitIn.msg)
    /\ exitPc' = "failed"
    /\ UNCHANGED <<exitIn, exitCode, exitStderr>>
    /\ UNCHANGED notExitVars

\* The failure is handed up with context, fmt.Errorf("...: %w", err).
HelperWrap ==
    /\ exitPc = "failed"
    /\ exitIn.wraps > 0
    /\ exitErr' = Errorf("context", exitErr)
    /\ exitIn' = [exitIn EXCEPT !.wraps = @ - 1]
    /\ UNCHANGED <<exitPc, exitCode, exitStderr>>
    /\ UNCHANGED notExitVars

\* exitcodes.ExitWith(err): the message goes to stderr, the process exits.
HelperExit ==
    /\ exitPc = "failed"
    /\ exitStderr' = Append(exitStderr, exitErr[1].msg)
    /\ exitCode' = ExitWith(exitErr)
    /\ exitPc' = "exited"
    /\ UNCHANGED <<exitIn, exitErr>>
    /\ UNCHANGED notExitVars

\* A helper that fails with any code from 0 to MaxExitCode and any message.
ExitInit ==
    /\ TlprocIdle
    /\ InstallIdle
    /\ BpfIdle
    /\ MoreIdle
    /\ \E c \in 0..MaxExitCode, m \in Messages, w \in 0..MaxWraps :
         exitIn = [code |-> c, msg |-> m, wraps |-> w]
    /\ exitErr = <<>>
    /\ exitPc = "start"
    /\ exitCode = -1
    /\ exitStderr = <<>>

ExitNext ==
    \/ HelperFail
    \/ HelperWrap
    \/ HelperExit

ExitSpec == ExitInit /\ [][ExitNext]_vars

\* The codes of the four failure kinds.
FailureCodes == {UnexpectedFailure, BadInput, FailedCheck, Outdated}

\* C18: a helper that fails with ErrorFromCode(c, msg) and ends in ExitWith exits
\* with c, for each of the four codes c; the four kinds have four different
\* codes, and errors built from different codes exit with different codes.
C18_ExitCodeBijection ==
    /\ (exitPc = "exited" /\ exitIn.code \in FailureCodes) => exitCode = exitIn.code
    /\ FailureCodes = 1..4
    /\ \A c1, c2 \in FailureCodes :
         c1 # c2 =>
           /\ ErrorFromCode(c1, exitIn.msg)[1].kind # ErrorFromCode(c2, exitIn.msg)[1].kind
           /\ ExitWith(ErrorFromCode(c1, exitIn.msg)) # ExitWith(ErrorFromCode(c2, exitIn.msg))

\* A helper that failed with the error of code Outdated, wrapped on its way up,
\* has exited with Outdated.
C18_Witness ==
    /\ exitPc = "exited"
    /\ exitIn.code = Outdated
    /\ Len(exitErr) > 1
    /\ exitCode = Outdated

\* =====================================================================
\* Command config-bpf, the Device Configurator.
\* =====================================================================
\* How many BPF devices exist when config-bpf starts, at most.
MaxDevices == 2
\* The largest value of sysctl debug.bpf_maxdevices.
MaxSystemDevices == 3

bpfGroup == "access_bpf"
maxCreatedDevices == 256

\* A device node: the group that owns it and its group-read bit.
DeviceStates == [gid : {bpfGroup, "wheel"}, groupRead : BOOLEAN]
\* The node the kernel creates is owned by wheel, without group read.
NewDevice == [gid |-> "wheel", groupRead |-> FALSE]

\* Everything config-bpf leaves alone.
notBpfVars == <<tlprocVars, installVars, exitVars, moreVars>>

\* The system: the run does not change the groups or the sysctl value.
bpfSystem == <<groupExists, groupOps, systemMax>>

\* exitcodes.ExitWith(e) called from main.
BpfExitWith(e) ==
    /\ bpfExit' = ExitWith(e)
    /\ bpfPc' = "exited"

\* main.go:43-56
getMaxBPFDevices ==
    IF systemMax < maxCreatedDevices THEN systemMax ELSE maxCreatedDevices

\* main.go:71-83: flag.Parse, then os.Create of the files named by -stderr and
\* -stdout; a failure is printed and ignored.
BpfTruncate ==
    /\ bpfPc = "start"
    /\ \E okErr \in BOOLEAN, okOut \in BOOLEAN :
         truncated' = {f \in {"stderr", "stdout"} :
                          IF f = "stderr"
                          THEN bpfFlags.stderr /\ okErr
                          ELSE bpfFlags.stdout /\ okOut}
    /\ bpfPc' = "lookup"
    /\ UNCHANGED <<bpfFlags, bpfExit, devices, devOps, startDevice, endDevice,
                   bpfDevices, devPos>>
    /\ UNCHANGED bpfSystem
    /\ UNCHANGED notBpfVars

\* main.go:85-92: user.LookupGroup(bpfGroup) and the parse of its GID.
BpfLookupGroup ==
    /\ bpfPc = "lookup"
    /\ IF ~groupExists
       THEN BpfExitWith(Errorf("failed to look up access_bpf",
                               errorsNew("group: unknown group access_bpf")))
       ELSE \E gidOk \in BOOLEAN :
              IF gidOk
              THEN bpfPc' = "walk" /\ UNCHANGED bpfExit
              ELSE BpfExitWith(ErrorfV("failed to parse access_bpf GID",
                                       errorsNew("strconv.Atoi")))
    /\ UNCHANGED <<bpfFlags, devices, truncated, devOps, startDevice, endDevice,
                   bpfDevices, devPos>>
    /\ UNCHANGED bpfSystem
    /\ UNCHANGED notBpfVars

\* main.go:98-116: the first walk of /dev finds the highest device index.
BpfFindStart ==
    /\ bpfPc = "walk"
    /\ \E walkOk \in BOOLEAN :
         IF walkOk
         THEN /\ startDevice' = IF Len(devices) > 1 THEN Len(devices) - 1 ELSE 0
              /\ bpfPc' = "max"
              /\ UNCHANGED bpfExit
         ELSE /\ BpfExitWith(Errorf("failed to walk /dev", errorsNew("walk")))
              /\ UNCHANGED startDevice
    /\ UNCHANGED <<bpfFlags, devices, truncated, devOps, endDevice, bpfDevices, devPos>>
    /\ UNCHANGED bpfSystem
    /\ UNCHANGED notBpfVars

\* BpfGetMax as the older configurator had it: in test mode, fewer devices
\* than the limit is a failed check.
BpfGetMaxChecksCount ==
    /\ bpfPc = "max"
    /\ \E sysctlOk \in BOOLEAN :
         IF ~sysctlOk
         THEN /\ BpfExitWith(Errorf("unable to determine max BPF devices",
                                    errorsNew("sysctl")))
              /\ UNCHANGED endDevice
         ELSE IF bpfFlags.test /\ startDevice < getMaxBPFDevices
         THEN /\ BpfExitWith(ErrorFailedCheck("need to create more BPF devices"))
              /\ UNCHANGED endDevice
         ELSE /\ endDevice' = getMaxBPFDevices
              /\ bpfPc' = "trigger"
              /\ UNCHANGED bpfExit
    /\ UNCHANGED <<bpfFlags, devices, truncated, devOps, startDevice, bpfDevices, devPos>>
    /\ UNCHANGED bpfSystem
    /\ UNCHANGED notBpfVars

\* main.go:117-120
BpfGetMax ==
    /\ bpfPc = "max"
    /\ \E sysctlOk \in BOOLEAN :
         IF sysctlOk
         THEN /\ endDevice' = getMaxBPFDevices
              /\ bpfPc' = "trigger"
              /\ UNCHANGED bpfExit
         ELSE /\ BpfExitWith(Errorf("unable to determine max BPF devices",
                                    errorsNew("sysctl")))
              /\ UNCHANGED endDevice
    /\ UNCHANGED <<bpfFlags, devices, truncated, devOps, startDevice, bpfDevices, devPos>>
    /\ UNCHANGED bpfSystem
    /\ UNCHANGED notBpfVars

\* BpfTrigger with the loop bound of the older configurator, i < endDevice:
\* the last device is opened as well.
BpfTriggerPastMax ==
    /\ bpfPc = "trigger"
    /\ IF bpfFlags.test \/ ~(startDevice < endDevice)
       THEN /\ bpfPc' = "enumerate"
            /\ UNCHANGED <<devices, devOps, startDevice>>
       ELSE \E openOk \in BOOLEAN, readOk \in BOOLEAN :
              LET opened == openOk /\ startDevice < Len(devices)
              IN  /\ devices' = IF opened /\ Len(devices) = startDevice + 1
                                THEN Append(devices, NewDevice)
                                ELSE devices
                  /\ IF opened /\ readOk
                     THEN /\ devOps' = Append(devOps, [op |-> "trigger", dev |-> startDevice])
                          /\ startDevice' = startDevice + 1
                          /\ UNCHANGED bpfPc
                     ELSE /\ devOps' = Append(devOps, [op |-> "trigger failed",
                                                      dev |-> startDevice])
                          /\ bpfPc' = "enumerate"
                          /\ UNCHANGED startDevice
    /\ UNCHANGED <<bpfFlags, bpfExit, truncated, endDevice, bpfDevices, devPos>>
    /\ UNCHANGED bpfSystem
    /\ UNCHANGED notBpfVars

\* BpfTrigger with a failed trigger handed to exitcodes.ExitWith.
BpfTriggerFailsHard ==
    /\ bpfPc = "trigger"
    /\ IF bpfFlags.test \/ ~(startDevice < endDevice - 1)
       THEN /\ bpfPc' = "enumerate"
            /\ UNCHANGED <<bpfExit, devices, devOps, startDevice>>
       ELSE \E openOk \in BOOLEAN, readOk \in BOOLEAN :
              LET opened == openOk /\ startDevice < Len(devices)
              IN  /\ devices' = IF opened /\ Len(devices) = startDevice + 1
                                THEN Append(devices, NewDevice)
                                ELSE devices
                  /\ IF opened /\ readOk
                     THEN /\ devOps' = Append(devOps, [op |-> "trigger", dev |-> startDevice])
                          /\ startDevice' = startDevice + 1
                          /\ UNCHANGED <<bpfPc, bpfExit>>
                     ELSE /\ devOps' = Append(devOps, [op |-> "trigger failed",
                                                      dev |-> startDevice])
                          /\ BpfExitWith(Errorf("failed to create device",
                                                errorsNew("open")))
                          /\ UNCHANGED startDevice
    /\ UNCHANGED <<bpfFlags, truncated, endDevice, bpfDevices, devPos>>
    /\ UNCHANGED bpfSystem
    /\ UNCHANGED notBpfVars

\* main.go:58-68, 121-133: one turn of the creation loop. triggerNextBPFDevice
\* opens /dev/bpf<i> and reads zero bytes from it; the open of the last device
\* makes the kernel create /dev/bpf<i+1>. The first failure, of the open or of
\* the read, is printed and ends the loop.
BpfTrigger ==
    /\ bpfPc = "trigger"
    /\ IF bpfFlags.test \/ ~(startDevice < endDevice - 1)
       THEN /\ bpfPc' = "enumerate"
            /\ UNCHANGED <<devices, devOps, startDevice>>
       ELSE \E openOk \in BOOLEAN, readOk \in BOOLEAN :
              LET opened == openOk /\ startDevice < Len(devices)
              IN  /\ devices' = IF opened /\ Len(devices) = startDevice + 1
                                THEN Append(devices, NewDevice)
                                ELSE devices
                  /\ IF opened /\ readOk
                     THEN /\ devOps' = Append(devOps, [op |-> "trigger", dev |-> startDevice])
                          /\ startDevice' = startDevice + 1
                          /\ UNCHANGED bpfPc
                     ELSE /\ devOps' = Append(devOps, [op |-> "trigger failed",
                                                      dev |-> startDevice])
                          /\ bpfPc' = "enumerate"
                          /\ UNCHANGED startDevice
    /\ UNCHANGED <<bpfFlags, bpfExit, truncated, endDevice, bpfDevices, devPos>>
    /\ UNCHANGED bpfSystem
    /\ UNCHANGED notBpfVars

\* BpfEnumerate without the length test of main.go:152-154: an empty list goes
\* on to the range loop, which ends at once.
BpfEnumerateEmptyOk ==
    /\ bpfPc = "enumerate"
    /\ \E walkOk \in BOOLEAN :
         IF ~walkOk
         THEN /\ BpfExitWith(Errorf("failed to walk /dev", errorsNew("walk")))
              /\ UNCHANGED <<bpfDevices, devPos>>
         ELSE /\ bpfDevices' = [k \in 1..Len(devices) |-> k - 1]
              /\ devPos' = 1
              /\ bpfPc' = "configure"
              /\ UNCHANGED bpfExit
    /\ UNCHANGED <<bpfFlags, devices, truncated, devOps, startDevice, endDevice>>
    /\ UNCHANGED bpfSystem
    /\ UNCHANGED notBpfVars

\* main.go:136-154: the second walk of /dev lists the devices.
BpfEnumerate ==
    /\ bpfPc = "enumerate"
    /\ \E walkOk \in BOOLEAN :
         IF ~walkOk
         THEN /\ BpfExitWith(Errorf("failed to walk /dev", errorsNew("walk")))
              /\ UNCHANGED <<bpfDevices, devPos>>
         ELSE IF Len(devices) = 0
         THEN /\ BpfExitWith(errorsNew("found no BPF devices"))
              /\ UNCHANGED <<bpfDevices, devPos>>
         ELSE /\ bpfDevices' = [k \in 1..Len(devices) |-> k - 1]
              /\ devPos' = 1
              /\ bpfPc' = "configure"
              /\ UNCHANGED bpfExit
    /\ UNCHANGED <<bpfFlags, devices, truncated, devOps, startDevice, endDevice>>
    /\ UNCHANGED bpfSystem
    /\ UNCHANGED notBpfVars

\* BpfConfigure without the os.Chmod of main.go:177: the group-read bit is
\* looked at and left as it is.
BpfConfigureNoChmod ==
    /\ bpfPc = "configure"
    /\ devPos <= Len(bpfDevices)
    /\ \E statOk \in BOOLEAN, chownOk \in BOOLEAN :
         LET d == bpfDevices[devPos]
             dev == devices[d + 1]
             wrongGroup == dev.gid # bpfGroup
             noGroupRead == ~dev.groupRead
         IN
           IF ~statOk
           THEN /\ BpfExitWith(Errorf("failed to stat device", errorsNew("stat")))
                /\ UNCHANGED <<devices, devOps, devPos>>
           ELSE IF wrongGroup /\ bpfFlags.test
           THEN /\ BpfExitWith(ErrorFailedCheck("device not owned by access_bpf"))
                /\ UNCHANGED <<devices, devOps, devPos>>
           ELSE IF wrongGroup /\ ~chownOk
           THEN /\ BpfExitWith(Errorf("failed to assign device to access_bpf",
                                      errorsNew("chown")))
                /\ UNCHANGED <<devices, devOps, devPos>>
           ELSE IF noGroupRead /\ bpfFlags.test
           THEN /\ BpfExitWith(ErrorFailedCheck("device does not have group read"))
                /\ UNCHANGED <<devices, devOps, devPos>>
           ELSE /\ devices' = [devices EXCEPT ![d + 1].gid = bpfGroup]
                /\ devOps' = devOps \o
                     (IF wrongGroup THEN <<[op |-> "chown", dev |-> d]>> ELSE <<>>)
                /\ devPos' = devPos + 1
                /\ UNCHANGED <<bpfPc, bpfExit>>
    /\ UNCHANGED <<bpfFlags, truncated, startDevice, endDevice, bpfDevices>>
    /\ UNCHANGED bpfSystem
    /\ UNCHANGED notBpfVars

\* main.go:155-181: one turn of the range loop, for the device at devPos: its
\* owning group, then its group-read bit. In test mode the first difference
\* ends the run with a FailedCheckError.
BpfConfigure ==
    /\ bpfPc = "configure"
    /\ devPos <= Len(bpfDevices)
    /\ \E statOk \in BOOLEAN, chownOk \in BOOLEAN, chmodOk \in BOOLEAN :
         LET d == bpfDevices[devPos]
             dev == devices[d + 1]
             wrongGroup == dev.gid # bpfGroup
             noGroupRead == ~dev.groupRead
         IN
           IF ~statOk
           THEN /\ BpfExitWith(Errorf("failed to stat device", errorsNew("stat")))
                /\ UNCHANGED <<devices, devOps, devPos>>
           ELSE IF wrongGroup /\ bpfFlags.test
           THEN /\ BpfExitWith(ErrorFailedCheck("device not owned by access_bpf"))
                /\ UNCHANGED <<devices, devOps, devPos>>
           ELSE IF wrongGroup /\ ~chownOk
           THEN /\ BpfExitWith(Errorf("failed to assign device to access_bpf",
                                      errorsNew("chown")))
                /\ UNCHANGED <<devices, devOps, devPos>>
           ELSE IF noGroupRead /\ bpfFlags.test
           THEN /\ BpfExitWith(ErrorFailedCheck("device does not have group read"))
                /\ UNCHANGED <<devices, devOps, devPos>>
           ELSE IF noGroupRead /\ ~chmodOk
           THEN /\ BpfExitWith(Errorf("failed to assign group read to device",
                                      errorsNew("chmod")))
                /\ devices' = [devices EXCEPT ![d + 1].gid = bpfGroup]
                /\ devOps' = devOps \o
                     (IF wrongGroup THEN <<[op |-> "chown", dev |-> d]>> ELSE <<>>)
                /\ UNCHANGED devPos
           ELSE /\ devices' = [devices EXCEPT ![d + 1] =
                                  [gid |-> bpfGroup, groupRead |-> TRUE]]
                /\ devOps' = devOps \o
                     (IF wrongGroup THEN <<[op |-> "chown", dev |-> d]>> ELSE <<>>) \o
                     (IF noGroupRead THEN <<[op |-> "chmod", dev |-> d]>> ELSE <<>>)
                /\ devPos' = devPos + 1
                /\ UNCHANGED <<bpfPc, bpfExit>>
    /\ UNCHANGED <<bpfFlags, truncated, startDevice, endDevice, bpfDevices>>
    /\ UNCHANGED bpfSystem
    /\ UNCHANGED notBpfVars

\* main.go:181-182: the loop is over, main returns and the process exits 0.
BpfReturn ==
    /\ bpfPc = "configure"
    /\ devPos > Len(bpfDevices)
    /\ bpfExit' = 0
    /\ bpfPc' = "exited"
    /\ UNCHANGED <<bpfFlags, devices, truncated, devOps, startDevice, endDevice,
                   bpfDevices, devPos>>
    /\ UNCHANGED bpfSystem
    /\ UNCHANGED notBpfVars

\* config-bpf started with any flags, on a system with or without the group,
\* with up to MaxDevices devices in any state; only an existing group owns
\* anything.
BpfInit ==
    /\ TlprocIdle
    /\ InstallIdle
    /\ ExitIdle
    /\ MoreIdle
    /\ bpfFlags \in [test : BOOLEAN, stdout : BOOLEAN, stderr : BOOLEAN]
    /\ bpfPc = "start"
    /\ bpfExit = -1
    /\ groupExists \in BOOLEAN
    /\ groupOps = <<>>
    /\ systemMax \in 1..MaxSystemDevices
    /\ \E n \in 0..MaxDevices : devices \in [1..n -> DeviceStates]
    /\ groupExists \/ \A k \in 1..Len(devices) : devices[k].gid # bpfGroup
    /\ truncated = {}
    /\ devOps = <<>>
    /\ startDevice = 0
    /\ endDevice = 0
    /\ bpfDevices = <<>>
    /\ devPos = 0

BpfNext ==
    \/ BpfTruncate
    \/ BpfLookupGroup
    \/ BpfFindStart
    \/ BpfGetMax
    \/ BpfTrigger
    \/ BpfEnumerate
    \/ BpfConfigure
    \/ BpfReturn

ConfigBpfSpec == BpfInit /\ [][BpfNext]_vars

\* =====================================================================
\* Properties of config-bpf.
\* =====================================================================
\* C19 as stated: a run with -test changes nothing: it triggers no device,
\* changes no owner and no mode, and truncates no file.
C19_TestModeHasNoSideEffects ==
    bpfFlags.test => (devOps = <<>> /\ truncated = {})

\* C20 as stated: when access_bpf does not exist, a run with -test exits with
\* FailedCheck and a run without it exits with UnexpectedFailure, and neither
\* creates the group.
C20_MissingGroupExitCodes ==
    (~groupExists /\ bpfPc = "exited") =>
        /\ bpfExit = IF bpfFlags.test THEN FailedCheck ELSE UnexpectedFailure
        /\ groupOps = <<>>

\* A device as the per-device loop leaves it: owned by access_bpf, group read.
Configured(dev) == dev.gid = bpfGroup /\ dev.groupRead

\* C29: after a run without -test that exits 0, every device the second walk
\* listed is owned by access_bpf and has the group-read bit.
C29_ExitZeroMeansConfigured ==
    (bpfPc = "exited" /\ bpfExit = 0 /\ ~bpfFlags.test) =>
        \A k \in 1..Len(bpfDevices) : Configured(devices[bpfDevices[k] + 1])

\* An apply run that exited 0 after creating a device, changing an owner and
\* setting a group-read bit.
C29_Witness ==
    /\ bpfPc = "exited" /\ bpfExit = 0 /\ ~bpfFlags.test
    /\ \E a, b, c \in 1..Len(devOps) :
         /\ devOps[a].op = "trigger"
         /\ devOps[b].op = "chown"
         /\ devOps[c].op = "chmod"

\* A finished run with -test on a system with the group and a device.
CheckRunDone ==
    /\ bpfPc = "exited"
    /\ bpfFlags.test
    /\ groupExists
    /\ Len(devices) >= 1

SomeDeviceUnconfigured == \E k \in 1..Len(devices) : ~Configured(devices[k])

EventsOf(id) ==
    LET all == errRecv \o errC \o statsRecv \o statsC
        held == IF pending["watch"].id = id THEN 1 ELSE 0
    IN  Cardinality({k \in 1..Len(all) : all[k].src = "stderr" /\ all[k].id = id})
        + Cardinality({e \in dropped.errC \cup dropped.statsC :
                          e.src = "stderr" /\ e.id = id})
        + held

\* What the watch thread holds for the line it has just read.
LastLineDispatched ==
    LET line == watched[Len(watched)]
        ev == pending["watch"]
    IN  /\ watchPc \in {"elock", "ecs"} =>
             /\ ev.src = "stderr" /\ ev.id = line.id
             /\ \/ line.prefix = errorPrefix /\ ev.text = line.body
                \/ /\ line.prefix = statsPrefix
                   /\ line.body # "json"
                   /\ ev.text = "failed to unmarshal stats"
        /\ watchPc \in {"slock", "scs"} =>
             /\ ev.src = "stderr" /\ ev.id = line.id
             /\ line.prefix = statsPrefix /\ line.body = "json"
             /\ ev.text = "stats"
        /\ watchPc \in {"scan", "done"} => ev = NoEvent

\* The switch of watchStderr: an error line gives an error event with the rest
\* of the line, a stats line a statistics event or, when it does not decode, an
\* error event, any other line nothing; no line gives two events, and the
\* events of a stream come from lines of that stream.
WatchDispatch ==
    /\ Len(watched) > 0 => LastLineDispatched
    /\ \A k \in 1..Len(watched) :
         EventsOf(watched[k].id) <= (IF StreamOf(watched[k]) = "none" THEN 0 ELSE 1)
    /\ \A k \in 1..Len(watched) : Accounted(watched[k])

\* C24: the watch thread turns every line into at most one event, as the switch
\* says, and is still running after every line the subprocess has written.
C24_WatchKeepsDispatching ==
    /\ WatchDispatch
    /\ "watch" \in threads => watchPc # "done"

\* A producer leaves sendError, and the event it came with.
ErrSendStep ==
    \/ waitPc = "cs" /\ waitPc' = "done"
    \/ copyPc = "cs" /\ copyPc' = "done"
    \/ watchPc = "ecs" /\ watchPc' = "scan"
ErrSender ==
    IF waitPc = "cs" THEN "wait" ELSE IF copyPc = "cs" THEN "copy" ELSE "watch"

\* The watch thread leaves sendStats.
StatsSendStep == watchPc = "scs" /\ watchPc' = "scan"

\* C25: a send to a queue that is full discards the event being sent: the
\* queue keeps its events in their order, the other queue and the closed flag
\* stay as they are.
C25_FullQueueDropsNewest ==
    [][ /\ (ErrSendStep /\ ~closedFlag /\ Len(errC) = channelBufferSize) =>
             /\ errC' = errC
             /\ dropped'.errC = dropped.errC \cup {pending[ErrSender]}
             /\ statsC' = statsC /\ dropped'.statsC = dropped.statsC
             /\ closedFlag' = closedFlag
        /\ (StatsSendStep /\ ~closedFlag /\ Len(statsC) = channelBufferSize) =>
             /\ statsC' = statsC
             /\ dropped'.statsC = dropped.statsC \cup {pending["watch"]}
             /\ errC' = errC /\ dropped'.errC = dropped.errC
             /\ closedFlag' = closedFlag
      ]_vars

\* A queue is full of the events of the first channelBufferSize lines and the
\* event of a later line has been discarded.
C25_Witness ==
    \/ /\ Len(errC) = channelBufferSize
       /\ \A k \in 1..channelBufferSize : errC[k].id = k
       /\ \E e \in dropped.errC : e.id > channelBufferSize
    \/ /\ Len(statsC) = channelBufferSize
       /\ \A k \in 1..channelBufferSize : statsC[k].id = k
       /\ \E e \in dropped.statsC : e.id > channelBufferSize

\* C27: once New has returned, whatever it returned, the poll thread it has
\* started ends.
C27_PollThreadExits ==
    (newPc = "done" /\ "poll" \in threads) ~> (pollPc = "done")

\* C28: once a Close call on the handle has returned, the copy thread and the
\* watch thread end.
C28_CloseStopsThreads ==
    (\E i \in Closers : closePc[i] = "ret") ~> (copyPc = "done" /\ watchPc = "done")

\* =====================================================================
\* The stderr line protocol, on the text of the lines:
\* tlserver/main.go:102-117 and tlproc.go:235-254.
\* =====================================================================
\* The largest counter of a statistics value.
MaxCounter == 10
\* How many statistics values, and how many errors, the capture engine hands
\* to the printer in a run.
MaxStatsEvents == 1

\* trafficlog.CaptureStats, a struct of unsigned counters with exported
\* fields; encoding/json writes it as an object of decimal numbers.
Counters == 0..MaxCounter
CaptureStats == [Received : Counters, Dropped : Counters]
ZeroStats == [Received |-> 0, Dropped |-> 0]

DigitChars == <<"0", "1", "2", "3", "4", "5", "6", "7", "8", "9">>
IsDigit(c) == \E d \in 1..10 : DigitChars[d] = c
DigitValue(c) == (CHOOSE d \in 1..10 : DigitChars[d] = c) - 1

\* strconv.AppendUint, base 10, as json.Marshal writes an unsigned field.
RECURSIVE FormatUint(_)
FormatUint(n) ==
    IF n < 10 THEN <<DigitChars[n + 1]>>
    ELSE Append(FormatUint(n \div 10), DigitChars[(n % 10) + 1])

\* strconv.ParseUint, base 10, as json.Unmarshal reads an unsigned field.
RECURSIVE ParseUint(_)
ParseUint(ds) ==
    IF Len(ds) = 1 THEN DigitValue(ds[1])
    ELSE 10 * ParseUint(SubSeq(ds, 1, Len(ds) - 1)) + DigitValue(ds[Len(ds)])

\* A JSON number of the kind an unsigned field accepts.
IsNumber(ds) ==
    /\ Len(ds) >= 1
    /\ \A k \in 1..Len(ds) : IsDigit(ds[k])
    /\ Len(ds) > 1 => ds[1] # "0"

\* tlserver/main.go:108: json.Marshal(stats): the text and the error.
jsonMarshal(stats) ==
    [text |-> <<"{", "\"Received\"", ":">> \o FormatUint(stats.Received)
                 \o <<",", "\"Dropped\"", ":">> \o FormatUint(stats.Dropped)
                 \o <<"}">>,
     err |-> FALSE]

\* One member of a JSON object: a key, a colon, a number.
IsMember(m) == Len(m) >= 3 /\ m[2] = ":" /\ IsNumber(SubSeq(m, 3, Len(m)))
\* json.Unmarshal stores a member in the field of its name and skips a member
\* no field answers to.
Assign(stats, m) ==
    IF m[1] = "\"Received\""
    THEN [stats EXCEPT !.Received = ParseUint(SubSeq(m, 3, Len(m)))]
    ELSE IF m[1] = "\"Dropped\""
    THEN [stats EXCEPT !.Dropped = ParseUint(SubSeq(m, 3, Len(m)))]
    ELSE stats

\* tlproc.go:244-245: json.Unmarshal([]byte(line), stats) into a new
\* CaptureStats: the value and the error.
jsonUnmarshal(text) ==
    LET n == Len(text)
        commas == {k \in 1..n : text[k] = ","}
        malformed == [stats |-> ZeroStats, err |-> TRUE]
    IN  IF text = <<"{", "}">>
        THEN [stats |-> ZeroStats, err |-> FALSE]
        ELSE IF n >= 2 /\ text[1] = "{" /\ text[n] = "}" /\ Cardinality(commas) = 1
        THEN LET c == CHOOSE k \in commas : TRUE
                 m1 == SubSeq(text, 2, c - 1)
                 m2 == SubSeq(text, c + 1, n - 1)
             IN  IF IsMember(m1) /\ IsMember(m2)
                 THEN [stats |-> Assign(Assign(ZeroStats, m1), m2), err |-> FALSE]
                 ELSE malformed
        ELSE malformed

\* strings.HasPrefix and strings.TrimPrefix on the text of a line.
stringsHasPrefix(text, prefix) == Len(text) >= 1 /\ text[1] = prefix
\* Mutant of stringsTrimPrefix: the prefix stays.
stringsTrimPrefixKeeps(text, prefix) == text
stringsTrimPrefix(text, prefix) ==
    IF stringsHasPrefix(text, prefix) THEN Tail(text) ELSE text

\* bufio.ScanLines: the line without its newline.
scannerText(written) ==
    IF Len(written) >= 1 /\ written[Len(written)] = "\n"
    THEN SubSeq(written, 1, Len(written) - 1)
    ELSE written

notCodecVars == <<tlprocVars, installVars, exitVars, bpfVars, relayVars, cfgVars,
                  cmdVars, sysVars>>

\* tlserver/main.go:107-114: a value arrives on tl.Stats(); it is marshalled
\* and printed after the stats prefix, or the marshalling error after the
\* error prefix.
SrvPrintStats ==
    /\ srvPc = "select"
    /\ Len(sentStats) < MaxStatsEvents
    /\ \E stats \in CaptureStats :
         LET b == jsonMarshal(stats)
         IN  /\ srvStats' = stats
             /\ IF b.err
                THEN /\ srvLine' = <<errorPrefix, "failed to marshal stats", "\n">>
                     /\ UNCHANGED sentStats
                ELSE /\ srvLine' = <<statsPrefix>> \o b.text \o <<"\n">>
                     /\ sentStats' = Append(sentStats, stats)
    /\ srvPc' = "printed"
    /\ UNCHANGED <<statsOut, errOut>>
    /\ UNCHANGED notCodecVars

\* tlserver/main.go:105-106: an error arrives on tl.Errors() and is printed
\* after the error prefix.
SrvPrintError ==
    /\ srvPc = "select"
    /\ Len(errOut) < MaxStatsEvents
    /\ srvLine' = <<errorPrefix, "capture error", "\n">>
    /\ srvPc' = "printed"
    /\ UNCHANGED <<srvStats, sentStats, statsOut, errOut>>
    /\ UNCHANGED notCodecVars

\* tlproc.go:237-252: the scanner returns the line and the switch sends its
\* event.
WatchText ==
    /\ srvPc = "printed"
    /\ LET line == scannerText(srvLine)
       IN  IF stringsHasPrefix(line, errorPrefix)
           THEN /\ errOut' = Append(errOut, stringsTrimPrefix(line, errorPrefix))
                /\ UNCHANGED statsOut
           ELSE IF stringsHasPrefix(line, statsPrefix)
           THEN LET r == jsonUnmarshal(stringsTrimPrefix(line, statsPrefix))
                IN  IF r.err
                    THEN /\ errOut' = Append(errOut, <<"failed to unmarshal stats">>)
                         /\ UNCHANGED statsOut
                    ELSE /\ statsOut' = Append(statsOut, r.stats)
                         /\ UNCHANGED errOut
           ELSE UNCHANGED <<statsOut, errOut>>
    /\ srvLine' = <<>>
    /\ srvPc' = "select"
    /\ UNCHANGED <<srvStats, sentStats>>
    /\ UNCHANGED notCodecVars

TextInit ==
    /\ TlprocIdle
    /\ InstallIdle
    /\ ExitIdle
    /\ BpfIdle
    /\ RelayIdle
    /\ CfgIdle
    /\ CmdIdle
    /\ SysIdle
    /\ srvPc = "select"
    /\ srvStats = ZeroStats
    /\ srvLine = <<>>
    /\ sentStats = <<>>
    /\ statsOut = <<>>
    /\ errOut = <<>>

TextNext ==
    \/ SrvPrintStats
    \/ SrvPrintError
    \/ WatchText

TextSpec == TextInit /\ [][TextNext]_vars

\* C23: the statistics values the watch thread passes on are the values the
\* subprocess printed, in order and field by field, and no printed value ends
\* as a decoding error.
C23_StatsRoundTrip ==
    /\ srvPc = "select" => statsOut = sentStats
    /\ srvPc = "printed" =>
         \/ statsOut = sentStats
         \/ Append(statsOut, srvStats) = sentStats
    /\ \A k \in 1..Len(errOut) : errOut[k] # <<"failed to unmarshal stats">>

\* A value with a counter of two digits and two different counters has been
\* printed, read and passed on.
C23_Witness ==
    /\ srvPc = "select"
    /\ Len(statsOut) >= 1
    /\ statsOut[1].Received >= 10
    /\ statsOut[1].Dropped # statsOut[1].Received
    /\ statsOut[1].Dropped > 0

\* =====================================================================
\* The relay of the subprocess's standard error, byte by byte:
\* tlproc.go:177-206 and 321-391.
\* =====================================================================
\* Number of bytes the subprocess writes to its standard error.
RelayBytes == 4
\* The most bytes one c.from.Read returns (the buffer of copy holds 100).
ChunkMax == 2

Min(a, b) == IF a < b THEN a ELSE b

notRelayVars == <<tlprocVars, installVars, exitVars, bpfVars, codecVars, cfgVars,
                  cmdVars, sysVars>>

\* The subprocess writes the next byte to its standard error.
RelayEmit ==
    /\ relayEmitted < RelayBytes
    /\ relayFrom' = Append(relayFrom, relayEmitted + 1)
    /\ relayEmitted' = relayEmitted + 1
    /\ UNCHANGED <<relayRead, relayChunk, relayCopyPc, relayTo, relayTarget, relayMx,
                   relayBuf, relayNewPc, relayWatchSrc, relayWatched>>
    /\ UNCHANGED notRelayVars

\* tlproc.go:369: c.from.Read(buf) returns the bytes that are there, at most
\* a buffer full, and blocks while there are none.
RelayCopyRead ==
    /\ relayCopyPc = "read"
    /\ relayFrom # <<>>
    /\ \E n \in 1..Min(ChunkMax, Len(relayFrom)) :
         /\ relayChunk' = SubSeq(relayFrom, 1, n)
         /\ relayFrom' = SubSeq(relayFrom, n + 1, Len(relayFrom))
         /\ relayRead' = relayRead \o SubSeq(relayFrom, 1, n)
    /\ relayCopyPc' = "select"
    /\ UNCHANGED <<relayEmitted, relayTo, relayTarget, relayMx, relayBuf, relayNewPc,
                   relayWatchSrc, relayWatched>>
    /\ UNCHANGED notRelayVars

\* tlproc.go:373-377: the select on stopC, which New closes only when it
\* returns an error (194, 198): the default case.
RelayCopySelect ==
    /\ relayCopyPc = "select"
    /\ relayCopyPc' = "lock"
    /\ UNCHANGED <<relayFrom, relayEmitted, relayRead, relayChunk, relayTo, relayTarget,
                   relayMx, relayBuf, relayNewPc, relayWatchSrc, relayWatched>>
    /\ UNCHANGED notRelayVars

\* tlproc.go:360-361: protectedWrite takes the mutex and calls Write on the
\* writer c.to holds at that moment.
RelayCopyLock ==
    /\ relayCopyPc = "lock"
    /\ relayMx = "none"
    /\ relayMx' = "copy"
    /\ relayTarget' = relayTo
    /\ relayCopyPc' = "write"
    /\ UNCHANGED <<relayFrom, relayEmitted, relayRead, relayChunk, relayTo, relayBuf,
                   relayNewPc, relayWatchSrc, relayWatched>>
    /\ UNCHANGED notRelayVars

\* tlproc.go:334-339, 361-362: syncBuf.Write appends the chunk to the start-up
\* buffer; protectedWrite unlocks.
RelayCopyWriteBuf ==
    /\ relayCopyPc = "write"
    /\ relayTarget = "buf"
    /\ relayBuf' = relayBuf \o relayChunk
    /\ relayChunk' = <<>>
    /\ relayMx' = "none"
    /\ relayCopyPc' = "read"
    /\ UNCHANGED <<relayFrom, relayEmitted, relayRead, relayTo, relayTarget, relayNewPc,
                   relayWatchSrc, relayWatched>>
    /\ UNCHANGED notRelayVars

\* tlproc.go:201-202: the serverUp case of the select; io.Pipe().
RelayServerUp ==
    /\ relayNewPc = "select"
    /\ relayNewPc' = "switch"
    /\ UNCHANGED <<relayFrom, relayEmitted, relayRead, relayChunk, relayCopyPc, relayTo,
                   relayTarget, relayMx, relayBuf, relayWatchSrc, relayWatched>>
    /\ UNCHANGED notRelayVars

\* Mutant of RelaySwitchWriter: c.to is set without the mutex.
RelaySwitchWriterNoLock ==
    /\ relayNewPc = "switch"
    /\ relayTo' = "pipe"
    /\ relayNewPc' = "go"
    /\ UNCHANGED <<relayFrom, relayEmitted, relayRead, relayChunk, relayCopyPc,
                   relayTarget, relayMx, relayBuf, relayWatchSrc, relayWatched>>
    /\ UNCHANGED notRelayVars

\* tlproc.go:203, 383-387: switchWriter: Lock, c.to = wPipe, Unlock.
RelaySwitchWriter ==
    /\ relayNewPc = "switch"
    /\ relayMx = "none"
    /\ relayTo' = "pipe"
    /\ relayNewPc' = "go"
    /\ UNCHANGED <<relayFrom, relayEmitted, relayRead, relayChunk, relayCopyPc,
                   relayTarget, relayMx, relayBuf, relayWatchSrc, relayWatched>>
    /\ UNCHANGED notRelayVars

\* tlproc.go:204: go p.watchStderr(io.MultiReader(stderrBuf, rPipe)).
RelayGoWatch ==
    /\ relayNewPc = "go"
    /\ relayWatchSrc' = "buf"
    /\ relayNewPc' = "done"
    /\ UNCHANGED <<relayFrom, relayEmitted, relayRead, relayChunk, relayCopyPc, relayTo,
                   relayTarget, relayMx, relayBuf, relayWatched>>
    /\ UNCHANGED notRelayVars

\* tlproc.go:327-332: the scanner reads from the MultiReader, which is at
\* stderrBuf: syncBuf.Read returns some of the buffered bytes.
RelayWatchReadBuf ==
    /\ relayWatchSrc = "buf"
    /\ relayBuf # <<>>
    /\ \E k \in 1..Len(relayBuf) :
         /\ relayWatched' = relayWatched \o SubSeq(relayBuf, 1, k)
         /\ relayBuf' = SubSeq(relayBuf, k + 1, Len(relayBuf))
    /\ UNCHANGED <<relayFrom, relayEmitted, relayRead, relayChunk, relayCopyPc, relayTo,
                   relayTarget, relayMx, relayNewPc, relayWatchSrc>>
    /\ UNCHANGED notRelayVars

\* tlproc.go:327-332: the empty buffer answers io.EOF and the MultiReader
\* moves on to rPipe for good.
RelayWatchBufEOF ==
    /\ relayWatchSrc = "buf"
    /\ relayBuf = <<>>
    /\ relayWatchSrc' = "pipe"
    /\ UNCHANGED <<relayFrom, relayEmitted, relayRead, relayChunk, relayCopyPc, relayTo,
                   relayTarget, relayMx, relayBuf, relayNewPc, relayWatched>>
    /\ UNCHANGED notRelayVars

\* tlproc.go:361-362: the scanner reads from rPipe some of the bytes a Write
\* on wPipe is offering; the Write returns when all are taken, and
\* protectedWrite unlocks.
RelayWatchReadPipe ==
    /\ relayWatchSrc = "pipe"
    /\ relayCopyPc = "write"
    /\ relayTarget = "pipe"
    /\ \E k \in 1..Len(relayChunk) :
         /\ relayWatched' = relayWatched \o SubSeq(relayChunk, 1, k)
         /\ relayChunk' = SubSeq(relayChunk, k + 1, Len(relayChunk))
         /\ IF k = Len(relayChunk)
            THEN relayMx' = "none" /\ relayCopyPc' = "read"
            ELSE UNCHANGED <<relayMx, relayCopyPc>>
    /\ UNCHANGED <<relayFrom, relayEmitted, relayRead, relayTo, relayTarget, relayBuf,
                   relayNewPc, relayWatchSrc>>
    /\ UNCHANGED notRelayVars

\* New has started the subprocess and its copy goroutine, which writes to
\* stderrBuf, and waits in its select (tlproc.go:177-192).
RelayInit ==
    /\ TlprocIdle
    /\ InstallIdle
    /\ ExitIdle
    /\ BpfIdle
    /\ CodecIdle
    /\ CfgIdle
    /\ CmdIdle
    /\ SysIdle
    /\ relayFrom = <<>>
    /\ relayEmitted = 0
    /\ relayRead = <<>>
    /\ relayChunk = <<>>
    /\ relayCopyPc = "read"
    /\ relayTo = "buf"
    /\ relayTarget = "buf"
    /\ relayMx = "none"
    /\ relayBuf = <<>>
    /\ relayNewPc = "select"
    /\ relayWatchSrc = "off"
    /\ relayWatched = <<>>

RelayNext ==
    \/ RelayEmit
    \/ RelayCopyRead
    \/ RelayCopySelect
    \/ RelayCopyLock
    \/ RelayCopyWriteBuf
    \/ RelayServerUp
    \/ RelaySwitchWriter
    \/ RelayGoWatch
    \/ RelayWatchReadBuf
    \/ RelayWatchBufEOF
    \/ RelayWatchReadPipe

RelaySpec == RelayInit /\ [][RelayNext]_vars

\* The chunk copy has read and not yet written.
RelayInFlight ==
    IF relayCopyPc \in {"select", "lock", "write"} THEN relayChunk ELSE <<>>

\* C26: the bytes the watch thread has read, then the bytes still in the
\* start-up buffer, then the chunk the copy thread holds, are the bytes the
\* copy thread has read, in order; and no byte is left in the start-up buffer
\* once the watch thread has moved on to the pipe.
C26_RelayKeepsBytes ==
    /\ relayWatched \o relayBuf \o RelayInFlight = relayRead
    /\ relayRead = [k \in 1..Len(relayRead) |-> k]
    /\ relayWatchSrc = "pipe" => relayBuf = <<>>

\* The watch thread has read part of the start-up buffer while the copy
\* thread, past the swap, offers the next chunk on the pipe; and all RelayBytes
\* bytes are on their way.
C26_Witness ==
    /\ relayWatchSrc = "buf"
    /\ relayWatched # <<>>
    /\ relayBuf # <<>>
    /\ relayCopyPc = "write"
    /\ relayTarget = "pipe"
    /\ Len(relayRead) = RelayBytes

\* =====================================================================
\* Command tlconfig, the System Configurator: tlconfig/main.go:46-303.
\* =====================================================================
\* Number of runs of tlconfig, one after the other.
MaxRuns == 3

\* unnamed/part_004:6-8 (package tlconfigexit)
CodeFailedCheck == 1
CodeBadInput == 2
CodeUnexpectedFailure == 3

\* tlconfig/main.go:50-56, 67-69: the functions failedCheck and badInput
cfgFailedCheck(msg) == <<Layer("errorFailedCheck", 0, msg)>>
cfgBadInput(msg, cause) == <<Layer("errorBadInput", 0, msg)>> \o cause

\* tlconfig/main.go:82-92: the exit code fail gives an error.
fail(e) ==
    IF errorsAs(e, "errorBadInput") THEN CodeBadInput
    ELSE IF errorsAs(e, "errorFailedCheck") THEN CodeFailedCheck
    ELSE CodeUnexpectedFailure

\* tlconfig/main.go:296-302: the exit code of main for what configure returned;
\* an error over an *exec.ExitError is printed again with the child's stderr.
mainExit(e) ==
    IF e = nil THEN 0
    ELSE IF errorsAs(e, "ExitError") THEN fail(ErrorfV("with stderr", e))
    ELSE fail(e)

notCfgVars == <<tlprocVars, installVars, exitVars, bpfVars, codecVars, relayVars,
                cmdVars, sysVars>>
cfgSystem == <<cfgGroup, cfgBinOwned, cfgBinMode, cfgDevices, cfgMax>>
cfgLocals == <<cfgStart, cfgEnd, cfgList, cfgPos>>

\* The kinds of change among the changes a run has made or attempted.
OpKinds(ops) == {ops[k].op : k \in 1..Len(ops)}

\* configure returns e and main exits; ops are the changes of the run, and
\* the record of the run keeps their kinds.
CfgReturn(e, ops) ==
    /\ cfgPc' = "exited"
    /\ cfgRuns' = Append(cfgRuns, [test |-> cfgTest, code |-> mainExit(e),
                                   ops |-> OpKinds(ops)])

\* The highest device index of /dev, 0 without devices.
HighestDevice == IF Len(cfgDevices) > 1 THEN Len(cfgDevices) - 1 ELSE 0

\* tlconfig/main.go:289-296: tlconfig is started, with or without -test, on
\* the system as the run before left it.
CfgStart ==
    /\ cfgPc \in {"ready", "exited"}
    /\ Len(cfgRuns) < MaxRuns
    /\ cfgTest' \in BOOLEAN
    /\ cfgPc' = "user"
    /\ cfgOps' = <<>>
    /\ cfgStart' = 0
    /\ cfgEnd' = 0
    /\ cfgList' = <<>>
    /\ cfgPos' = 0
    /\ UNCHANGED cfgRuns
    /\ UNCHANGED cfgSystem
    /\ UNCHANGED notCfgVars

\* tlconfig/main.go:134-146: look up the user, stat the binary.
CfgLookupUser ==
    /\ cfgPc = "user"
    /\ \E userOk \in BOOLEAN, statOk \in BOOLEAN, sysOk \in BOOLEAN :
         IF ~userOk
         THEN CfgReturn(cfgBadInput("failed to look up user", errorsNew("user")), cfgOps)
         ELSE IF ~statOk
         THEN CfgReturn(cfgBadInput("failed to stat binary", errorsNew("stat")), cfgOps)
         ELSE IF ~sysOk
         THEN CfgReturn(errorsNew("failed to obtain detailed stat info on binary"), cfgOps)
         ELSE cfgPc' = "group" /\ UNCHANGED cfgRuns
    /\ UNCHANGED <<cfgTest, cfgOps>>
    /\ UNCHANGED cfgLocals
    /\ UNCHANGED cfgSystem
    /\ UNCHANGED notCfgVars

\* tlconfig/main.go:94-106, 149-162: look up access_bpf; a missing group is a
\* failed check in test mode and is created otherwise.
CfgGroup ==
    /\ cfgPc = "group"
    /\ \E lookupOk \in BOOLEAN, dseditOk \in BOOLEAN, secondOk \in BOOLEAN,
          deleted \in BOOLEAN :
         IF ~lookupOk
         THEN /\ CfgReturn(Errorf("failed to look up access_bpf", errorsNew("lookup")),
                           cfgOps)
              /\ UNCHANGED <<cfgGroup, cfgOps>>
         ELSE IF cfgGroup
         THEN /\ cfgPc' = "owner"
              /\ UNCHANGED <<cfgRuns, cfgGroup, cfgOps>>
         ELSE IF cfgTest
         THEN /\ CfgReturn(cfgFailedCheck("access_bpf does not exist"), cfgOps)
              /\ UNCHANGED <<cfgGroup, cfgOps>>
         ELSE LET ops == Append(cfgOps, [op |-> "creategroup", dev |-> 0])
              IN  /\ cfgOps' = ops
                  /\ IF ~dseditOk
                     THEN /\ CfgReturn(Errorf("failed to create access_bpf", ExitError(1)),
                                       ops)
                          /\ UNCHANGED cfgGroup
                     ELSE IF ~secondOk
                     THEN /\ CfgReturn(Errorf("failed to create access_bpf",
                                              Errorf("look up failed", errorsNew("lookup"))),
                                       Append(ops, [op |-> "deletegroup", dev |-> 0]))
                          /\ cfgGroup' = ~deleted
                     ELSE /\ cfgGroup' = TRUE
                          /\ cfgPc' = "owner"
                          /\ UNCHANGED cfgRuns
    /\ UNCHANGED <<cfgTest, cfgBinOwned, cfgBinMode, cfgDevices, cfgMax>>
    /\ UNCHANGED cfgLocals
    /\ UNCHANGED notCfgVars

\* tlconfig/main.go:165-180: the binary belongs to the user and to access_bpf.
CfgOwner ==
    /\ cfgPc = "owner"
    /\ \E uidOk \in BOOLEAN, gidOk \in BOOLEAN, chownOk \in BOOLEAN :
         IF ~uidOk
         THEN /\ CfgReturn(Errorf("failed to parse UID", errorsNew("strconv.Atoi")), cfgOps)
              /\ UNCHANGED <<cfgBinOwned, cfgOps>>
         ELSE IF ~gidOk
         THEN /\ CfgReturn(Errorf("failed to parse GID", errorsNew("strconv.Atoi")), cfgOps)
              /\ UNCHANGED <<cfgBinOwned, cfgOps>>
         ELSE IF cfgBinOwned
         THEN /\ cfgPc' = "walk"
              /\ UNCHANGED <<cfgRuns, cfgBinOwned, cfgOps>>
         ELSE IF cfgTest
         THEN /\ CfgReturn(cfgFailedCheck("binary not owned by user and access_bpf"), cfgOps)
              /\ UNCHANGED <<cfgBinOwned, cfgOps>>
         ELSE LET ops == Append(cfgOps, [op |-> "chown binary", dev |-> 0])
              IN  /\ cfgOps' = ops
                  /\ IF chownOk
                     THEN /\ cfgBinOwned' = TRUE
                          /\ cfgPc' = "walk"
                          /\ UNCHANGED cfgRuns
                     ELSE /\ CfgReturn(Errorf("failed to change binary ownership",
                                              errorsNew("chown")), ops)
                          /\ UNCHANGED cfgBinOwned
    /\ UNCHANGED <<cfgTest, cfgGroup, cfgBinMode, cfgDevices, cfgMax>>
    /\ UNCHANGED cfgLocals
    /\ UNCHANGED notCfgVars

\* tlconfig/main.go:186-201: the first walk of /dev looks for the highest
\* device index; its error is dropped, and startDevice is what it had found.
CfgFindStart ==
    /\ cfgPc = "walk"
    /\ \E walkOk \in BOOLEAN, seen \in 0..HighestDevice :
         cfgStart' = IF walkOk THEN HighestDevice ELSE seen
    /\ cfgPc' = "max"
    /\ UNCHANGED <<cfgTest, cfgRuns, cfgOps, cfgEnd, cfgList, cfgPos>>
    /\ UNCHANGED cfgSystem
    /\ UNCHANGED notCfgVars

\* tlconfig/main.go:108-121, 202-208: the device limit; in test mode a
\* highest index below it is a failed check.
CfgGetMax ==
    /\ cfgPc = "max"
    /\ \E sysctlOk \in BOOLEAN :
         LET limit == IF cfgMax < maxCreatedDevices THEN cfgMax ELSE maxCreatedDevices
         IN  IF ~sysctlOk
             THEN /\ CfgReturn(Errorf("unable to determine max BPF devices",
                                      errorsNew("sysctl")), cfgOps)
                  /\ UNCHANGED cfgEnd
             ELSE IF cfgTest /\ cfgStart < limit
             THEN /\ CfgReturn(cfgFailedCheck("need to create more BPF devices"), cfgOps)
                  /\ cfgEnd' = limit
             ELSE /\ cfgEnd' = limit
                  /\ cfgPc' = "trigger"
                  /\ UNCHANGED cfgRuns
    /\ UNCHANGED <<cfgTest, cfgOps, cfgStart, cfgList, cfgPos>>
    /\ UNCHANGED cfgSystem
    /\ UNCHANGED notCfgVars

\* tlconfig/main.go:123-131, 209-215: one turn of the creation loop. The shell
\* opens /dev/bpf<i>; opening the last device makes the kernel create the
\* next one while there are fewer than debug.bpf_maxdevices; the first failure
\* ends the loop.
CfgTrigger ==
    /\ cfgPc = "trigger"
    /\ IF ~(cfgStart < cfgEnd)
       THEN /\ cfgPc' = "enumerate"
            /\ UNCHANGED <<cfgDevices, cfgOps, cfgStart>>
       ELSE \E shOk \in BOOLEAN :
              /\ cfgOps' = Append(cfgOps, [op |-> "trigger", dev |-> cfgStart])
              /\ IF shOk /\ cfgStart < Len(cfgDevices)
                 THEN /\ cfgDevices' =
                           IF Len(cfgDevices) = cfgStart + 1 /\ Len(cfgDevices) < cfgMax
                           THEN Append(cfgDevices, NewDevice)
                           ELSE cfgDevices
                      /\ cfgStart' = cfgStart + 1
                      /\ UNCHANGED cfgPc
                 ELSE /\ cfgPc' = "enumerate"
                      /\ UNCHANGED <<cfgDevices, cfgStart>>
    /\ UNCHANGED <<cfgTest, cfgRuns, cfgEnd, cfgList, cfgPos>>
    /\ UNCHANGED <<cfgGroup, cfgBinOwned, cfgBinMode, cfgMax>>
    /\ UNCHANGED notCfgVars

\* tlconfig/main.go:218-236: the second walk of /dev lists the devices.
CfgEnumerate ==
    /\ cfgPc = "enumerate"
    /\ \E walkOk \in BOOLEAN :
         IF ~walkOk
         THEN /\ CfgReturn(Errorf("failed to walk /dev", errorsNew("walk")), cfgOps)
              /\ UNCHANGED <<cfgList, cfgPos>>
         ELSE IF Len(cfgDevices) = 0
         THEN /\ CfgReturn(errorsNew("found no BPF devices"), cfgOps)
              /\ UNCHANGED <<cfgList, cfgPos>>
         ELSE /\ cfgList' = [k \in 1..Len(cfgDevices) |-> k - 1]
              /\ cfgPos' = 1
              /\ cfgPc' = "devices"
              /\ UNCHANGED cfgRuns
    /\ UNCHANGED <<cfgTest, cfgOps, cfgStart, cfgEnd>>
    /\ UNCHANGED cfgSystem
    /\ UNCHANGED notCfgVars

\* tlconfig/main.go:237-263: one turn of the range loop, for the device at
\* cfgPos: its owning group, then its group-read bit; after the last device,
\* on to the binary's mode.
CfgDevice ==
    /\ cfgPc = "devices"
    /\ IF cfgPos > Len(cfgList)
       THEN /\ cfgPc' = "mode"
            /\ UNCHANGED <<cfgRuns, cfgDevices, cfgOps, cfgPos>>
       ELSE \E statOk \in BOOLEAN, chownOk \in BOOLEAN, chmodOk \in BOOLEAN :
         LET d == cfgList[cfgPos]
             dev == cfgDevices[d + 1]
             wrongGroup == dev.gid # bpfGroup
             noGroupRead == ~dev.groupRead
             chowned == IF wrongGroup THEN <<[op |-> "chown", dev |-> d]>> ELSE <<>>
             chmodded == IF noGroupRead THEN <<[op |-> "chmod", dev |-> d]>> ELSE <<>>
         IN
           IF ~statOk
           THEN /\ CfgReturn(Errorf("failed to stat device", errorsNew("stat")), cfgOps)
                /\ UNCHANGED <<cfgDevices, cfgOps, cfgPos>>
           ELSE IF wrongGroup /\ cfgTest
           THEN /\ CfgReturn(cfgFailedCheck("device not owned by access_bpf"), cfgOps)
                /\ UNCHANGED <<cfgDevices, cfgOps, cfgPos>>
           ELSE IF wrongGroup /\ ~chownOk
           THEN /\ CfgReturn(Errorf("failed to assign device to access_bpf",
                                    errorsNew("chown")), cfgOps \o chowned)
                /\ cfgOps' = cfgOps \o chowned
                /\ UNCHANGED <<cfgDevices, cfgPos>>
           ELSE IF noGroupRead /\ cfgTest
           THEN /\ CfgReturn(cfgFailedCheck("device does not have group read permissions"),
                             cfgOps)
                /\ UNCHANGED <<cfgDevices, cfgOps, cfgPos>>
           ELSE IF noGroupRead /\ ~chmodOk
           THEN /\ CfgReturn(Errorf("failed to assign group read to device",
                                    errorsNew("chmod")), cfgOps \o chowned \o chmodded)
                /\ cfgOps' = cfgOps \o chowned \o chmodded
                /\ cfgDevices' = [cfgDevices EXCEPT ![d + 1].gid = bpfGroup]
                /\ UNCHANGED cfgPos
           ELSE /\ cfgDevices' = [cfgDevices EXCEPT ![d + 1] =
                                     [gid |-> bpfGroup, groupRead |-> TRUE]]
                /\ cfgOps' = cfgOps \o chowned \o chmodded
                /\ cfgPos' = cfgPos + 1
                /\ UNCHANGED <<cfgPc, cfgRuns>>
    /\ UNCHANGED <<cfgTest, cfgStart, cfgEnd, cfgList>>
    /\ UNCHANGED <<cfgGroup, cfgBinOwned, cfgBinMode, cfgMax>>
    /\ UNCHANGED notCfgVars

\* CfgBinMode without the second os.Stat of main.go:278-284: a chmod that
\* returned nil is taken at its word.
CfgBinModeTrustsChmod ==
    /\ cfgPc = "mode"
    /\ \E statOk \in BOOLEAN, chmodOk \in BOOLEAN, flips \in BOOLEAN :
         LET ops == Append(cfgOps, [op |-> "chmod binary", dev |-> 0])
         IN
           IF ~statOk
           THEN /\ CfgReturn(Errorf("failed to stat binary", errorsNew("stat")), cfgOps)
                /\ UNCHANGED <<cfgBinMode, cfgOps>>
           ELSE IF cfgBinMode = "proper"
           THEN /\ CfgReturn(nil, cfgOps)
                /\ UNCHANGED <<cfgBinMode, cfgOps>>
           ELSE IF cfgTest
           THEN /\ CfgReturn(cfgFailedCheck("binary does not have proper permissions"), cfgOps)
                /\ UNCHANGED <<cfgBinMode, cfgOps>>
           ELSE IF ~chmodOk
           THEN /\ CfgReturn(Errorf("failed to assign proper permissions to binary",
                                    errorsNew("chmod")), ops)
                /\ cfgOps' = ops
                /\ UNCHANGED cfgBinMode
           ELSE /\ cfgOps' = ops
                /\ cfgBinMode' = IF flips THEN "proper" ELSE "other"
                /\ CfgReturn(nil, ops)
    /\ UNCHANGED cfgTest
    /\ UNCHANGED cfgLocals
    /\ UNCHANGED <<cfgGroup, cfgBinOwned, cfgDevices, cfgMax>>
    /\ UNCHANGED notCfgVars

\* tlconfig/main.go:266-286: the binary's mode; chmod can leave the setgid bit
\* as it was without an error, which the second stat finds out.
CfgBinMode ==
    /\ cfgPc = "mode"
    /\ \E statOk \in BOOLEAN, chmodOk \in BOOLEAN, flips \in BOOLEAN, againOk \in BOOLEAN :
         LET ops == Append(cfgOps, [op |-> "chmod binary", dev |-> 0])
         IN
           IF ~statOk
           THEN /\ CfgReturn(Errorf("failed to stat binary", errorsNew("stat")), cfgOps)
                /\ UNCHANGED <<cfgBinMode, cfgOps>>
           ELSE IF cfgBinMode = "proper"
           THEN /\ CfgReturn(nil, cfgOps)
                /\ UNCHANGED <<cfgBinMode, cfgOps>>
           ELSE IF cfgTest
           THEN /\ CfgReturn(cfgFailedCheck("binary does not have proper permissions"), cfgOps)
                /\ UNCHANGED <<cfgBinMode, cfgOps>>
           ELSE IF ~chmodOk
           THEN /\ CfgReturn(Errorf("failed to assign proper permissions to binary",
                                    errorsNew("chmod")), ops)
                /\ cfgOps' = ops
                /\ UNCHANGED cfgBinMode
           ELSE /\ cfgOps' = ops
                /\ cfgBinMode' = IF flips THEN "proper" ELSE "other"
                /\ IF ~againOk
                   THEN CfgReturn(Errorf("failed to stat binary to check chmod success",
                                         errorsNew("stat")), ops)
                   ELSE IF ~flips
                   THEN CfgReturn(errorsNew("silent chmod failure"), ops)
                   ELSE CfgReturn(nil, ops)
    /\ UNCHANGED cfgTest
    /\ UNCHANGED cfgLocals
    /\ UNCHANGED <<cfgGroup, cfgBinOwned, cfgDevices, cfgMax>>
    /\ UNCHANGED notCfgVars

\* A system with or without the group, a binary in any state, up to MaxDevices
\* devices in any state and no more than the kernel's limit; only an existing
\* group owns anything.
CfgInit ==
    /\ TlprocIdle
    /\ InstallIdle
    /\ ExitIdle
    /\ BpfIdle
    /\ CodecIdle
    /\ RelayIdle
    /\ CmdIdle
    /\ SysIdle
    /\ cfgTest = FALSE
    /\ cfgPc = "ready"
    /\ cfgRuns = <<>>
    /\ cfgOps = <<>>
    /\ cfgGroup \in BOOLEAN
    /\ cfgBinOwned \in BOOLEAN
    /\ cfgBinMode \in {"proper", "other"}
    /\ cfgMax \in 1..MaxSystemDevices
    /\ \E n \in 0..MaxDevices : cfgDevices \in [1..n -> DeviceStates]
    /\ Len(cfgDevices) <= cfgMax
    /\ cfgGroup \/ (~cfgBinOwned /\ \A k \in 1..Len(cfgDevices) : cfgDevices[k].gid # bpfGroup)
    /\ cfgStart = 0
    /\ cfgEnd = 0
    /\ cfgList = <<>>
    /\ cfgPos = 0

CfgNext ==
    \/ CfgStart
    \/ CfgLookupUser
    \/ CfgGroup
    \/ CfgOwner
    \/ CfgFindStart
    \/ CfgGetMax
    \/ CfgTrigger
    \/ CfgEnumerate
    \/ CfgDevice
    \/ CfgBinMode

ConfigureSpec == CfgInit /\ [][CfgNext]_vars

\* C21: a check run that exited with FailedCheck, then an apply run that
\* exited 0, then a check run: that one exits 0.
C21_CheckAfterApplySucceeds ==
    \A k \in 1..Len(cfgRuns) :
        ( /\ k + 2 <= Len(cfgRuns)
          /\ cfgRuns[k].test /\ cfgRuns[k].code = CodeFailedCheck
          /\ ~cfgRuns[k + 1].test /\ cfgRuns[k + 1].code = 0
          /\ cfgRuns[k + 2].test )
        => cfgRuns[k + 2].code = 0

\* C22: an apply run that exited 0, then another apply run: that one creates
\* no group, changes no owner and no mode, triggers no device, and exits 0.
C22_SecondApplyChangesNothing ==
    \A k \in 1..Len(cfgRuns) :
        ( /\ k + 1 <= Len(cfgRuns)
          /\ ~cfgRuns[k].test /\ cfgRuns[k].code = 0
          /\ ~cfgRuns[k + 1].test )
        => (cfgRuns[k + 1].ops = {} /\ cfgRuns[k + 1].code = 0)

\* =====================================================================
\* config-bpf: the device count, the limit and the creation loop.
\* =====================================================================
\* How far from maxCreatedDevices the large systems are, in devices.
CeilingMargin == 1

\* config-bpf on a small system as in BpfInit, or on a system whose limit and
\* device count are within CeilingMargin of maxCreatedDevices; the devices of
\* the large system are all in the same state.
ClampInit ==
    /\ TlprocIdle
    /\ InstallIdle
    /\ ExitIdle
    /\ MoreIdle
    /\ bpfFlags \in [test : BOOLEAN, stdout : {FALSE}, stderr : {FALSE}]
    /\ bpfPc = "start"
    /\ bpfExit = -1
    /\ groupExists \in BOOLEAN
    /\ groupOps = <<>>
    /\ systemMax \in (1..MaxSystemDevices) \cup
           ((maxCreatedDevices - CeilingMargin)..(maxCreatedDevices + CeilingMargin))
    /\ IF systemMax <= MaxSystemDevices
       THEN \E n \in 0..MaxDevices : devices \in [1..n -> DeviceStates]
       ELSE \E n \in (maxCreatedDevices - CeilingMargin - 1)..maxCreatedDevices,
               d \in DeviceStates : devices = [k \in 1..n |-> d]
    /\ groupExists \/ \A k \in 1..Len(devices) : devices[k].gid # bpfGroup
    /\ truncated = {}
    /\ devOps = <<>>
    /\ startDevice = 0
    /\ endDevice = 0
    /\ bpfDevices = <<>>
    /\ devPos = 0

ClampSpec == ClampInit /\ [][BpfNext]_vars

\* The calls of triggerNextBPFDevice of the run, in order.
IsTrigger(o) == o.op \in {"trigger", "trigger failed"}
TriggerOps == SelectSeq(devOps, IsTrigger)
TriggerFailed == \E k \in 1..Len(devOps) : devOps[k].op = "trigger failed"

\* C31: a run that ends on a system without any capture device, in check mode
\* or in apply mode, exits with UnexpectedFailure: not with FailedCheck, not
\* with 0.
C31_NoDevicesIsHardFailure ==
    (bpfPc = "exited" /\ Len(devices) = 0) => bpfExit = UnexpectedFailure

\* A check run that got as far as the second walk and found no device.
C31_Witness ==
    /\ bpfPc = "exited"
    /\ bpfFlags.test
    /\ groupExists
    /\ endDevice >= 1
    /\ Len(devices) = 0
    /\ bpfExit = UnexpectedFailure

\* C32: with M = min(debug.bpf_maxdevices, 256) and h the highest device index:
\* a check run triggers nothing; an apply run triggers at h, h+1, ... and only
\* below M-1; a step creates at most one device and none with index M or
\* higher; after a loop in which no trigger failed, on a system that had a
\* device, the indices up to M-1 all exist.
C32_TriggersStayBelowMax ==
    /\ [](bpfFlags.test => TriggerOps = <<>>)
    /\ [](\A k \in 1..Len(TriggerOps) :
             /\ TriggerOps[k].dev < getMaxBPFDevices - 1
             /\ k > 1 => TriggerOps[k].dev = TriggerOps[k - 1].dev + 1)
    /\ [][ /\ (devOps = <<>> /\ TriggerOps' # <<>>) =>
                (Len(devices) >= 1 => TriggerOps'[1].dev = Len(devices) - 1)
           /\ Len(devices') # Len(devices) =>
                (Len(devices') = Len(devices) + 1 /\ Len(devices') <= getMaxBPFDevices)
         ]_vars
    /\ []( ( /\ bpfPc \in {"enumerate", "configure"}
             /\ ~bpfFlags.test
             /\ ~TriggerFailed
             /\ Len(devices) >= 1 )
           => Len(devices) >= getMaxBPFDevices )

\* An apply run on a system whose limit is above 256 that has created the
\* device with index 255 and goes on to configure 256 devices.
C32_Witness ==
    /\ bpfPc = "configure"
    /\ ~bpfFlags.test
    /\ systemMax > maxCreatedDevices
    /\ TriggerOps # <<>>
    /\ ~TriggerFailed
    /\ Len(devices) = maxCreatedDevices

\* C33: a failed trigger is the last trigger of the run, and the step in
\* which it fails ends no run: it goes on to the second walk with the exit
\* code untouched.
C33_TriggerFailureIsNotFatal ==
    /\ [](\A k \in 1..Len(TriggerOps) :
             TriggerOps[k].op = "trigger failed" => k = Len(TriggerOps))
    /\ [][ (~TriggerFailed /\ TriggerFailed') =>
              (bpfPc' = "enumerate" /\ bpfExit' = bpfExit) ]_vars

\* An apply run in which a trigger failed and which exited 0 after a chown
\* and a chmod.
C33_Witness ==
    /\ bpfPc = "exited"
    /\ bpfExit = 0
    /\ TriggerFailed
    /\ \E a, b \in 1..Len(devOps) : devOps[a].op = "chown" /\ devOps[b].op = "chmod"

\* =====================================================================
\* The command line of the subprocess: New builds it, tlserver parses it.
\* =====================================================================
\* The largest buffer size New is called with, and the largest MTU limit.
MaxBufferBytes == 2
MaxMTU == 1

\* A text is a sequence of pieces; a number is the sequence of its digits.
\* fmt's %t and strconv.FormatBool.
FormatBool(b) == IF b THEN <<"t", "r", "u", "e">> ELSE <<"f", "a", "l", "s", "e">>
TrueTexts == {<<"1">>, <<"t">>, <<"T">>, <<"T", "R", "U", "E">>, <<"t", "r", "u", "e">>,
              <<"T", "r", "u", "e">>}
FalseTexts == {<<"0">>, <<"f">>, <<"F">>, <<"F", "A", "L", "S", "E">>,
               <<"f", "a", "l", "s", "e">>, <<"F", "a", "l", "s", "e">>}
\* strconv.ParseBool, as the flag package uses it for a bool flag.
ParseBool(t) ==
    IF t \in TrueTexts THEN [value |-> TRUE, err |-> FALSE]
    ELSE IF t \in FalseTexts THEN [value |-> FALSE, err |-> FALSE]
    ELSE [value |-> FALSE, err |-> TRUE]
\* strconv.Itoa of a size that is not negative.
Itoa(n) == FormatUint(n)
\* strconv.ParseInt of an unsigned text, as the flag package uses it for an int
\* flag.
Atoi(t) ==
    IF Len(t) >= 1 /\ \A k \in 1..Len(t) : IsDigit(t[k])
    THEN [value |-> ParseUint(t), err |-> FALSE]
    ELSE [value |-> 0, err |-> TRUE]

\* One argument of a command line: -name, -name=text, or a plain text.
Flag(name) == [flag |-> name, eq |-> FALSE, text |-> <<>>]
FlagEq(name, t) == [flag |-> name, eq |-> TRUE, text |-> t]
Value(t) == [flag |-> "", eq |-> FALSE, text |-> t]

\* tlproc.go:142-151: the arguments of tlserver.Command.
NewCommand(captureBytes, saveBytes, o, stripAppLayer) ==
    << Flag("socket-file"), Value(<<"socket">>),
       Flag("capture-bytes"), Value(Itoa(captureBytes)),
       Flag("save-bytes"), Value(Itoa(saveBytes)),
       Flag("mtu-limit"), Value(Itoa(o.MTULimit)),
       Flag("stats-interval"), Value(<<"statsInterval">>),
       Flag("error-prefix"), Value(<<errorPrefix>>),
       Flag("stats-prefix"), Value(<<statsPrefix>>),
       FlagEq("strip-app-layer", FormatBool(stripAppLayer)) >>

\* tlserver/main.go:29-37: the flags tlserver declares, with their types.
srvFlagTypes ==
    [n \in {"socket-file", "capture-bytes", "save-bytes", "stats-interval",
            "strip-app-layer", "error-prefix", "stats-prefix"} |->
        CASE n \in {"capture-bytes", "save-bytes"} -> "int"
          [] n = "strip-app-layer" -> "bool"
          [] n = "stats-interval" -> "duration"
          [] OTHER -> "string"]
srvDeclared == DOMAIN srvFlagTypes
\* The defaults of the three flags main reads before it serves.
srvDefaults == [captureBytes |-> 0, saveBytes |-> 0, stripAppLayer |-> FALSE]

\* flag.Value.Set for the flag called name: the values after it, and whether
\* the text was accepted.
flagSet(values, name, t) ==
    CASE name = "capture-bytes" ->
           [values |-> [values EXCEPT !.captureBytes = Atoi(t).value], err |-> Atoi(t).err]
      [] name = "save-bytes" ->
           [values |-> [values EXCEPT !.saveBytes = Atoi(t).value], err |-> Atoi(t).err]
      [] name = "strip-app-layer" ->
           [values |-> [values EXCEPT !.stripAppLayer = ParseBool(t).value],
            err |-> ParseBool(t).err]
      [] OTHER -> [values |-> values, err |-> t = <<>> /\ srvFlagTypes[name] = "duration"]

\* tlserver/main.go:85: flag.Parse over the arguments, with the flag package's
\* rules: a name that is not declared is an error; a bool flag takes its value
\* only after "="; any other flag takes it after "=" or from the next argument;
\* the first plain argument ends the parsing.
RECURSIVE flagParse(_, _)
flagParse(args, values) ==
    IF args = <<>> THEN [err |-> "nil", values |-> values]
    ELSE LET a == Head(args) IN
      IF a.flag = "" THEN [err |-> "nil", values |-> values]
      ELSE IF a.flag \notin srvDeclared
      THEN [err |-> "flag provided but not defined", values |-> values]
      ELSE IF srvFlagTypes[a.flag] = "bool"
      THEN LET r == flagSet(values, a.flag, IF a.eq THEN a.text ELSE <<"t", "r", "u", "e">>)
           IN  IF r.err THEN [err |-> "invalid value", values |-> values]
               ELSE flagParse(Tail(args), r.values)
      ELSE IF a.eq
      THEN LET r == flagSet(values, a.flag, a.text)
           IN  IF r.err THEN [err |-> "invalid value", values |-> values]
               ELSE flagParse(Tail(args), r.values)
      ELSE IF Len(args) < 2
      THEN [err |-> "flag needs an argument", values |-> values]
      ELSE LET r == flagSet(values, a.flag, args[2].text)
           IN  IF r.err THEN [err |-> "invalid value", values |-> values]
               ELSE flagParse(SubSeq(args, 3, Len(args)), r.values)

notCmdVars == <<tlprocVars, installVars, exitVars, bpfVars, codecVars, relayVars,
                cfgVars, sysVars>>

\* tlproc.go:119-159: New up to cmd.Start: the stat of the binary,
\* byteexec.Existing, shouldStripAppLayer, newSocketFile, the command line,
\* the start. prepared and started are whether the OS-facing calls succeed.
CmdNew ==
    /\ cmdPc = "new"
    /\ \E prepared \in BOOLEAN, started \in BOOLEAN :
         LET strip == shouldStripAppLayer(mutatorFactory(cmdArgs)) IN
           IF ~prepared \/ strip[2] # "nil" \/ ~started
           THEN /\ cmdPc' = "error"
                /\ UNCHANGED <<cmdBy, cmdLine>>
           ELSE /\ cmdLine' = NewCommand(cmdArgs.captureBytes, cmdArgs.saveBytes,
                                         cmdArgs, strip[1])
                /\ cmdBy' = "New"
                /\ cmdPc' = "spawned"
    /\ UNCHANGED <<cmdArgs, srvValues, srvExit>>
    /\ UNCHANGED notCmdVars

\* The command lines tlserver is started with by hand.
ShellLines ==
    LET sizes == << Flag("capture-bytes"), Value(Itoa(cmdArgs.captureBytes)),
                    Flag("save-bytes"), Value(Itoa(cmdArgs.saveBytes)) >>
    IN  { <<>>, sizes, sizes \o <<Flag("strip-app-layer")>>,
          sizes \o <<FlagEq("strip-app-layer", FormatBool(FALSE))>>,
          sizes \o <<FlagEq("strip-app-layer", <<"y", "e", "s">>)>>,
          <<Flag("capture-bytes")>> }

\* tlserver/main.go:84: tlserver is a command of its own: it is also started
\* from a shell, with the flags of its usage text.
CmdShell ==
    /\ cmdPc = "new"
    /\ cmdLine' \in ShellLines
    /\ cmdBy' = "shell"
    /\ cmdPc' = "spawned"
    /\ UNCHANGED <<cmdArgs, srvValues, srvExit>>
    /\ UNCHANGED notCmdVars

\* tlserver/main.go:85: flag.Parse; the default flag set exits with 2 on an
\* error.
SrvParse ==
    /\ cmdPc = "spawned"
    /\ LET r == flagParse(cmdLine, srvDefaults) IN
         IF r.err # "nil"
         THEN /\ srvExit' = 2
              /\ cmdPc' = "exited"
              /\ UNCHANGED srvValues
         ELSE /\ srvValues' = r.values
              /\ cmdPc' = "parsed"
              /\ UNCHANGED srvExit
    /\ UNCHANGED <<cmdArgs, cmdBy, cmdLine>>
    /\ UNCHANGED notCmdVars

\* tlserver/main.go:43-46, 86-96: the two sizes must be given; fail exits
\* with 1.
SrvCheck ==
    /\ cmdPc = "parsed"
    /\ IF srvValues.captureBytes = 0 \/ srvValues.saveBytes = 0
       THEN srvExit' = 1 /\ cmdPc' = "exited"
       ELSE cmdPc' = "serving" /\ UNCHANGED srvExit
    /\ UNCHANGED <<cmdArgs, cmdBy, cmdLine, srvValues>>
    /\ UNCHANGED notCmdVars

\* New called with any sizes up to MaxBufferBytes and any options, or tlserver
\* started by hand.
CmdInit ==
    /\ TlprocIdle
    /\ InstallIdle
    /\ ExitIdle
    /\ BpfIdle
    /\ CodecIdle
    /\ RelayIdle
    /\ CfgIdle
    /\ SysIdle
    /\ cmdArgs \in [captureBytes : 0..MaxBufferBytes, saveBytes : 0..MaxBufferBytes,
                    mutator : Mutators, MTULimit : 0..MaxMTU]
    /\ cmdBy = "none"
    /\ cmdPc = "new"
    /\ cmdLine = <<>>
    /\ srvValues = srvDefaults
    /\ srvExit = -1

CmdNext ==
    \/ CmdNew
    \/ CmdShell
    \/ SrvParse
    \/ SrvCheck

CmdSpec == CmdInit /\ [][CmdNext]_vars

\* The arguments of a command line that name the flag called name.
ArgsNamed(line, name) == SelectSeq(line, LAMBDA a : a.flag = name)

\* C34: New spawns the subprocess only for no factory, the no-op factory and
\* the application-layer stripper, with -strip-app-layer=false for the first
\* two and -strip-app-layer=true for the third; for any other factory New has
\* returned an error and there is no subprocess of its making.
C34_OnlyTwoMutators ==
    /\ cmdArgs.mutator = "Other" => cmdBy # "New"
    /\ cmdBy = "New" =>
         /\ cmdArgs.mutator \in {"nil", "NoOpFactory", "AppStripperFactory"}
         /\ ArgsNamed(cmdLine, "strip-app-layer") =
              << FlagEq("strip-app-layer",
                        FormatBool(cmdArgs.mutator = "AppStripperFactory")) >>

\* New has spawned the subprocess for the application-layer stripper.
C34_Witness ==
    /\ cmdBy = "New"
    /\ cmdArgs.mutator = "AppStripperFactory"
    /\ cmdPc = "spawned"

\* C37 as stated: every flag of a command line New spawned is one tlserver
\* declares, and with sizes that are not zero tlserver's flag parsing does not
\* reject the line.
C37_SpawnFlagsDeclared ==
    cmdBy = "New" =>
        /\ \A k \in 1..Len(cmdLine) : cmdLine[k].flag # "" => cmdLine[k].flag \in srvDeclared
        /\ (cmdArgs.captureBytes > 0 /\ cmdArgs.saveBytes > 0) =>
               ~(cmdPc = "exited" /\ srvExit = 2)

\* The run of tlconfig that has just ended.
LastRun == cfgRuns[Len(cfgRuns)]
ApplyRunEnded == cfgPc = "exited" /\ ~LastRun.test

\* C35: when an apply run has ended with exit code 0 the binary's mode is
\* properBinPermissions; when it has called chmod on the binary and the mode is
\* still another one, it has ended with CodeUnexpectedFailure.
C35_ChmodIsVerified ==
    ApplyRunEnded =>
        /\ LastRun.code = 0 => cfgBinMode = "proper"
        /\ ("chmod binary" \in LastRun.ops /\ cfgBinMode # "proper") =>
               LastRun.code = CodeUnexpectedFailure

\* An apply run that called chmod on the binary, found the mode unchanged and
\* ended with CodeUnexpectedFailure.
C35_Witness ==
    /\ ApplyRunEnded
    /\ "chmod binary" \in LastRun.ops
    /\ cfgBinMode # "proper"
    /\ LastRun.code = CodeUnexpectedFailure

\* =====================================================================
\* The start of the subprocess without and with a StartTimeout.
\* =====================================================================
\* New on an installed binary, with or without Options.StartTimeout, under the
\* scheduling of LiveSpec.
StartInit ==
    /\ \E t \in BOOLEAN :
         InitWith([lines |-> MaxLines, shapes |-> LineShapes], "ok",
                  [mutator |-> "nil", timeout |-> t])
    /\ HelpersIdle

StartSpec == StartInit /\ [][Next]_vars /\ Fairness

\* C36 as stated: when the subprocess has exited before any health check
\* succeeded and New, called without StartTimeout, waits in its select, New
\* eventually returns an error.
C36_NewReturnsAfterEarlyExit ==
    (newPc = "select" /\ ~opts.timeout /\ proc = "exited" /\ ~healthOk)
        ~> (newResult = "error")

\* =====================================================================
\* Install called twice on one machine.  The machine is what tlconfig reads
\* and writes: config (group, binaries present, ownership, modes, devices and
\* daemon registration are as tlconfig wants them), fresh (the installed
\* binaries equal the embedded ones) and fault, the one thing of the
\* environment that does not work.  Nothing but the elevated tlconfig changes
\* the machine.
\* =====================================================================
Faults == {"none", "begin", "tempdir", "bundle", "load", "launch", "unexpected"}

Machines == [config : BOOLEAN, fresh : BOOLEAN, fault : Faults]

\* What tlconfig -test ends with on machine m: FailedCheck for a
\* misconfiguration, Outdated for stale binaries and nothing worse, exit 0
\* otherwise; a command that cannot be launched has no exit code.
TestResult(m) ==
    IF m.fault = "launch" THEN errorsNew("failed to launch")
    ELSE IF m.fault = "unexpected" THEN ExitError(UnexpectedFailure)
    ELSE IF ~m.config THEN ExitError(FailedCheck)
    ELSE IF ~m.fresh THEN ExitError(Outdated)
    ELSE nil

\* The machines an elevated tlconfig can leave behind: it repairs what it gets
\* to, and it may stop anywhere (the user declines, a step fails).
AfterApply(m) ==
    {n \in Machines : /\ n.fault = m.fault
                      /\ m.config => n.config
                      /\ m.fresh => n.fresh}

LastTlconfigRun == tlconfigRuns[Len(tlconfigRuns)]

notSysVars == <<tlprocVars, exitVars, bpfVars, codecVars, relayVars, cfgVars, cmdVars>>

\* install.go:441-458 on this machine.
ReBegin ==
    /\ InstallBegin
    /\ installArgs.GOOS = "darwin" => (installPc' = "tempdir" <=> machine.fault # "begin")

\* install.go:460-464 on this machine.
ReTempDir ==
    /\ InstallTempDir
    /\ installPc' = "bundle" <=> machine.fault # "tempdir"

\* install.go:465-483 on this machine.
ReBundle ==
    /\ InstallBundle
    /\ installPc' = "load" <=> machine.fault # "bundle"

\* install.go:485 on this machine.
ReLoadTlconfig ==
    /\ InstallLoadTlconfig
    /\ installPc' = "check" <=> machine.fault # "load"

\* install.go:496: the first tlconfig -test reads the machine.
ReCheck ==
    /\ InstallCheck
    /\ tlconfigRuns'[Len(tlconfigRuns')].raw = TestResult(machine)

\* install.go:521: the elevated tlconfig has run (or has not, when the user
\* declined or the elevation failed): what it did to the machine.  The
\* error elevate returns says nothing about it.
TlconfigApplyEffect ==
    /\ installPc = "applied"
    /\ ~applied
    /\ applied' = TRUE
    /\ \E n \in AfterApply(machine) :
         machine' = IF LastTlconfigRun.raw = nil \/ ~isPermissionError(LastTlconfigRun.raw)
                    THEN n
                    ELSE machine
    /\ UNCHANGED <<callNo, firstCall>>
    /\ UNCHANGED installVars
    /\ UNCHANGED notSysVars

\* install.go:522-527, once the elevated command is over.
ReApplyResult ==
    /\ applied
    /\ InstallApplyResult

\* install.go:531: the second tlconfig -test reads the machine.
ReRecheck ==
    /\ InstallRecheck
    /\ tlconfigRuns'[Len(tlconfigRuns')].raw = TestResult(machine)

\* tlproc_test.go:34 run again: the caller calls Install a second time with
\* the same arguments, right after the first call returned.
InstallAgain ==
    /\ installPc = "done"
    /\ callNo = 1
    /\ callNo' = 2
    /\ firstCall' = [ret |-> installRet, elevated |-> ElevatedRuns # {}]
    /\ applied' = FALSE
    /\ installPc' = "start"
    /\ installRet' = nil
    /\ resourcesPath' = "none"
    /\ deferred' = FALSE
    /\ tlconfigRuns' = <<>>
    /\ output' = FALSE
    /\ err' = nil
    /\ failedCheck' = FALSE
    /\ outdated' = FALSE
    /\ UNCHANGED <<installArgs, machine>>
    /\ UNCHANGED notSysVars

\* The first of two calls of Install, on any machine.
ReinstallInit ==
    /\ TlprocIdle
    /\ ExitIdle
    /\ BpfIdle
    /\ CodecIdle
    /\ RelayIdle
    /\ CfgIdle
    /\ CmdIdle
    /\ machine \in Machines
    /\ applied = FALSE
    /\ callNo = 1
    /\ firstCall = [ret |-> nil, elevated |-> FALSE]
    /\ \E p \in Prompts, i \in Icons, o \in BOOLEAN, g \in Platforms :
         installArgs = [prompt |-> p, iconPath |-> i, Overwrite |-> o, GOOS |-> g]
    /\ installPc = "start"
    /\ installRet = nil
    /\ resourcesPath = "none"
    /\ deferred = FALSE
    /\ tlconfigRuns = <<>>
    /\ output = FALSE
    /\ err = nil
    /\ failedCheck = FALSE
    /\ outdated = FALSE

ReinstallNext ==
    \/ ReBegin
    \/ ReTempDir
    \/ ReBundle
    \/ ReLoadTlconfig
    \/ InstallLoadFailed
    \/ ReCheck
    \/ InstallCheckSwitch
    \/ InstallApply
    \/ TlconfigApplyEffect
    \/ ReApplyResult
    \/ ReRecheck
    \/ InstallRecheckSwitch
    \/ InstallAgain

ReinstallSpec == ReinstallInit /\ [][ReinstallNext]_vars

\* The second call follows a first call that asked for elevation and returned
\* nil.
AfterElevatedSuccess == callNo = 2 /\ firstCall.elevated /\ firstCall.ret = nil

====
